---- MODULE Spec2Model ----
(***************************************************************************)
(* Verification model of k8s-mcp: the Cluster Registry (ClusterManager),   *)
(* the stdio JSON-RPC serving loop and dispatcher, the stdio tool and      *)
(* resource handlers, and the HTTP variant's auth gate and get_resource    *)
(* handlers.                                                               *)
(***************************************************************************)
EXTENDS Integers, Sequences, FiniteSets, TLC

\* ------------------------------------------------------------------------
\* Bounds of the model
\* ------------------------------------------------------------------------
MaxClusters == 2
MaxContexts == 2
MaxTokenLen == 2
MaxWorkers == 2

\* ------------------------------------------------------------------------
\* Value universes
\* ------------------------------------------------------------------------
NamePool == <<"a", "b", "c", "d">>
ContextPool == <<"ctx1", "ctx2", "ctx3", "ctx4">>

\* Cluster names a caller or a kubeconfig can use; Go strings include "".
ClusterNames == {""} \cup {NamePool[i] : i \in 1..MaxClusters}
\* A name that is never registered.
UnknownName == "zz"
ContextNames == {ContextPool[i] : i \in 1..MaxContexts}

\* rest.Config values handed to AddCluster for a cluster: one that
\* kubernetes.NewForConfig accepts (it carries the cluster's own host) and
\* one that it rejects.
GoodConfig == "cfg"
BadConfig == "badcfg"
Configs(name) == {GoodConfig \o "-" \o name, BadConfig}

\* Go errors are modelled as the sequence of their message parts, outermost
\* wrapper first; the nil error is the empty sequence.
Nil == <<>>
Errorf(msg, arg) == <<msg, arg>>
Wrap(msg, err) == <<msg>> \o err

VARIABLES
    clusters,        \* cm.clusters: name -> Clientset (named by what built it)
    currentCluster,  \* cm.currentCluster
    lastOp,          \* last registry call and what it returned
    pc,              \* position of main / the serving loop
    scanErr,         \* stdio transport: bufio.Scanner holds a read error
    line,            \* stdio transport: the input line last read
    request,         \* the *JSONRPCRequest Receive returned
    response,        \* what Dispatch returned for request
    sent,            \* what Send wrote to stdout for response
    trace,           \* stages and handlers the dispatcher went through
    apiCalls,        \* Kubernetes API calls issued by the handler
    apiEnv,          \* how the Kubernetes API answered those calls
    authToken,       \* HTTP server: s.authToken
    httpReq,         \* HTTP server: the request being served
    httpResp,        \* HTTP server: what the handler chain did with it
    access,          \* HTTP server: what each goroutine is doing to the registry
    callArgs,        \* a function called on its own: its arguments
    callResult       \* what a call (of that function, or of Run) returned

regVars == <<clusters, currentCluster, lastOp>>

stdioVars == <<pc, scanErr, line, request, response, sent, trace, apiCalls, apiEnv>>

\* What a library call of the registry or the bridge leaves alone.
libVars == <<pc, scanErr, line, request, response, sent, trace, apiEnv>>

httpVars == <<authToken, httpReq, httpResp, access>>

callVars == <<callArgs, callResult>>

vars == <<clusters, currentCluster, lastOp, pc, scanErr, line, request, response,
          sent, trace, apiCalls, apiEnv, authToken, httpReq, httpResp, access,
          callArgs, callResult>>

\* ------------------------------------------------------------------------
\* Cluster Registry (ClusterManager)
\* ------------------------------------------------------------------------
Registry(cl, cur) == [clusters |-> cl, current |-> cur]

\* Go map assignment m[k] = v.
MapPut(m, k, v) == [x \in DOMAIN m \cup {k} |-> IF x = k THEN v ELSE m[x]]

EmptyMap == [x \in {} |-> ""]

NewClusterManager == Registry(EmptyMap, "")

\* kubernetes.NewForConfig: fails on a config the client library rejects.
NewForConfig(config) ==
    IF config = BadConfig THEN [client |-> "", err |-> <<"invalid configuration">>]
    ELSE [client |-> config, err |-> Nil]

AddCluster(reg, name, config) ==
    LET made == NewForConfig(config) IN
    IF made.err # Nil
    THEN [reg |-> reg, err |-> Wrap("failed to create client for cluster", made.err)]
    ELSE [reg |-> Registry(MapPut(reg.clusters, name, made.client),
                           IF reg.current = "" THEN name ELSE reg.current),
          err |-> Nil]

\* One kubeconfig context: the cluster it names and whether a client can be
\* built for it (clientConfig.ClientConfig and kubernetes.NewForConfig).
addContextCluster(reg, contextName, context) ==
    IF ~context.ok
    THEN [reg |-> reg, err |-> Errorf("failed to create config for context", contextName)]
    ELSE [reg |-> Registry(MapPut(reg.clusters, context.cluster, contextName),
                           IF reg.current = "" THEN context.cluster ELSE reg.current),
          err |-> Nil]

\* The range loop of LoadKubeConfigAndInitCluster over config.Contexts,
\* visiting the contexts in the given order and stopping at the first error.
RECURSIVE LoadContexts(_, _, _)
LoadContexts(reg, contexts, order) ==
    IF order = <<>> THEN [reg |-> reg, err |-> Nil]
    ELSE LET r == addContextCluster(reg, Head(order), contexts[Head(order)]) IN
         IF r.err # Nil THEN r
         ELSE LoadContexts(r.reg, contexts, Tail(order))

LoadKubeConfigAndInitCluster(reg, kubeconfig, order) ==
    IF ~kubeconfig.loadable
    THEN [reg |-> reg, err |-> <<"failed to load kubeconfig">>]
    ELSE LoadContexts(reg, kubeconfig.contexts, order)

GetClusters(reg) == DOMAIN reg.clusters

GetCurrentCluster(reg) == reg.current

\* A switch that sets current without looking the name up.
SwitchClusterUnchecked(reg, clusterName) ==
    [reg |-> Registry(reg.clusters, clusterName), err |-> Nil]

SwitchCluster(reg, clusterName) ==
    IF clusterName \notin DOMAIN reg.clusters
    THEN [reg |-> reg, err |-> Errorf("cluster not found", clusterName)]
    ELSE [reg |-> Registry(reg.clusters, clusterName), err |-> Nil]

GetCurrentClient(reg) ==
    IF reg.current = ""
    THEN [client |-> "", err |-> <<"no current cluster set">>]
    ELSE IF reg.current \notin DOMAIN reg.clusters
    THEN [client |-> "", err |-> Errorf("client for cluster not found", reg.current)]
    ELSE [client |-> reg.clusters[reg.current], err |-> Nil]

GetClientForCluster(reg, clusterName) ==
    IF clusterName \notin DOMAIN reg.clusters
    THEN [client |-> "", err |-> Errorf("client for cluster not found", clusterName)]
    ELSE [client |-> reg.clusters[clusterName], err |-> Nil]

\* ------------------------------------------------------------------------
\* Kubernetes API as the Resource Bridge sees it
\* ------------------------------------------------------------------------
\* The error a failing API call returns.
ApiError == <<"api error">>

\* Secret payloads (the bytes behind a Secret's data / stringData entry).
NoData == "<none>"
SecretValues == {"s3cr3t", "hunter2"}

\* How the cluster answers during one handler call: failAt = k makes the k-th
\* API call fail (0: none fails); items is the length of a returned list;
\* data and stringData are the payloads of a fetched object.
MaxApiCalls == 3
ApiEnvs == [failAt : 0..MaxApiCalls, items : 0..1,
            data : SecretValues \cup {NoData}, stringData : SecretValues \cup {NoData}]
QuietEnv == [failAt |-> 0, items |-> 0, data |-> NoData, stringData |-> NoData]

ApiCall(client, call) == [client |-> client, call |-> call]

\* A resolution that goes by current whatever the caller names.
ResolveClientByCurrent(reg, clusterName) == GetCurrentClient(reg)

\* if clusterName != "" { GetClientForCluster } else { GetCurrentClient }
ResolveClient(reg, clusterName) ==
    IF clusterName # "" THEN GetClientForCluster(reg, clusterName)
    ELSE GetCurrentClient(reg)

\* Shape shared by ListNamespaces, ListPods, ListServices, ListDeployments,
\* listConfigMaps, listSecrets, listNodes and listEvents: resolve the client,
\* issue one List call, wrap its failure, map the items.
ListVia(reg, clusterName, call, failMsg, env) ==
    LET c == ResolveClient(reg, clusterName) IN
    IF c.err # Nil THEN [items |-> 0, err |-> c.err, calls |-> <<>>]
    ELSE IF env.failAt = 1
    THEN [items |-> 0, err |-> Wrap(failMsg, ApiError),
          calls |-> <<ApiCall(c.client, call)>>]
    ELSE [items |-> env.items, err |-> Nil, calls |-> <<ApiCall(c.client, call)>>]

ListNamespaces(reg, clusterName, env) ==
    ListVia(reg, clusterName, "namespaces.list", "failed to list namespaces", env)
ListPods(reg, clusterName, env) ==
    ListVia(reg, clusterName, "pods.list", "failed to list pods", env)
ListServices(reg, clusterName, env) ==
    ListVia(reg, clusterName, "services.list", "failed to list services", env)
ListDeployments(reg, clusterName, env) ==
    ListVia(reg, clusterName, "deployments.list", "failed to list deployments", env)
listConfigMaps(reg, clusterName, env) ==
    ListVia(reg, clusterName, "configmaps.list", "failed to list configmaps", env)
listSecrets(reg, clusterName, env) ==
    ListVia(reg, clusterName, "secrets.list", "failed to list secrets", env)
listNodes(reg, clusterName, env) ==
    ListVia(reg, clusterName, "nodes.list", "failed to list nodes", env)
listEvents(reg, clusterName, env) ==
    ListVia(reg, clusterName, "events.list", "failed to list events", env)

ListResourcesByType(reg, resourceType, clusterName, env) ==
    CASE resourceType \in {"pods", "pod"} -> ListPods(reg, clusterName, env)
      [] resourceType \in {"services", "service"} -> ListServices(reg, clusterName, env)
      [] resourceType \in {"deployments", "deployment"} -> ListDeployments(reg, clusterName, env)
      [] resourceType \in {"namespaces", "namespace"} -> ListNamespaces(reg, clusterName, env)
      [] resourceType \in {"configmaps", "configmap"} -> listConfigMaps(reg, clusterName, env)
      [] resourceType \in {"secrets", "secret"} -> listSecrets(reg, clusterName, env)
      [] resourceType \in {"nodes", "node"} -> listNodes(reg, clusterName, env)
      [] resourceType \in {"events", "event"} -> listEvents(reg, clusterName, env)
      [] OTHER -> [items |-> 0, err |-> Errorf("unsupported resource type", resourceType),
                   calls |-> <<>>]

\* Go values returned as interface{}: the dynamic type and the fields that
\* reach the serializer.  Secret.Data holds the decoded bytes.
NoObject == [gotype |-> "nil", name |-> "", data |-> NoData, stringData |-> NoData]
TypedObject(gotype, name, env) ==
    [gotype |-> gotype, name |-> name,
     data |-> IF gotype \in {"*v1.Secret", "*v1.ConfigMap"} THEN env.data ELSE NoData,
     stringData |-> IF gotype = "*v1.Secret" THEN env.stringData ELSE NoData]

\* The typed Get of GetResourceDetails' switch; "" for an unsupported type.
GoTypeOf(resourceType) ==
    CASE resourceType \in {"pods", "pod"} -> "*v1.Pod"
      [] resourceType \in {"services", "service"} -> "*v1.Service"
      [] resourceType \in {"deployments", "deployment"} -> "*appsv1.Deployment"
      [] resourceType \in {"configmaps", "configmap"} -> "*v1.ConfigMap"
      [] resourceType \in {"secrets", "secret"} -> "*v1.Secret"
      [] resourceType \in {"namespaces", "namespace"} -> "*v1.Namespace"
      [] resourceType \in {"nodes", "node"} -> "*v1.Node"
      [] OTHER -> ""

GetResourceDetails(reg, resourceType, name, clusterName, env) ==
    LET c == ResolveClient(reg, clusterName) IN
    IF c.err # Nil THEN [resource |-> NoObject, err |-> c.err, calls |-> <<>>]
    ELSE IF GoTypeOf(resourceType) = ""
    THEN [resource |-> NoObject, err |-> Errorf("unsupported resource type", resourceType),
          calls |-> <<>>]
    ELSE IF env.failAt = 1
    THEN [resource |-> NoObject, err |-> ApiError,
          calls |-> <<ApiCall(c.client, "get")>>]
    ELSE [resource |-> TypedObject(GoTypeOf(resourceType), name, env), err |-> Nil,
          calls |-> <<ApiCall(c.client, "get")>>]

\* encoding/json renders a []byte as base64 text and a string as itself.
Base64(bytes) == <<"base64", bytes>>
Plain(str) == <<"plain", str>>
Redacted == "***REDACTED***"

\* json.MarshalIndent of a resource: the sequence of <<key, rendered value>>
\* it prints.  A struct prints its fields in declaration order and leaves out
\* empty omitempty fields; a map prints its keys sorted.
SerializeResource(resource) ==
    IF resource.gotype = "map[string]interface{}"
    THEN (IF resource.data # NoData THEN <<<<"data", Plain(resource.data)>>>> ELSE <<>>)
         \o <<<<"name", Plain(resource.name)>>>>
         \o (IF resource.stringData # NoData
             THEN <<<<"stringData", Plain(resource.stringData)>>>> ELSE <<>>)
    ELSE <<<<"name", Plain(resource.name)>>>>
         \o (IF resource.data # NoData
             THEN <<<<"data", IF resource.gotype = "*v1.Secret"
                              THEN Base64(resource.data) ELSE Plain(resource.data)>>>>
             ELSE <<>>)
         \o (IF resource.stringData # NoData
             THEN <<<<"stringData", Plain(resource.stringData)>>>> ELSE <<>>)

DescribeResource(reg, resourceType, name, clusterName, env) ==
    LET got == GetResourceDetails(reg, resourceType, name, clusterName, env) IN
    IF got.err # Nil THEN [text |-> <<>>, err |-> got.err, calls |-> got.calls]
    ELSE [text |-> SerializeResource(got.resource), err |-> Nil, calls |-> got.calls]

\* GetClusterInfo asking for the server version a second time when the
\* first request fails, and carrying on.
GetClusterInfoRetrying(reg, clusterName, env) ==
    LET c == ResolveClient(reg, clusterName)
        v == ApiCall(c.client, "version")
        n == ApiCall(c.client, "nodes.list")
        s == ApiCall(c.client, "namespaces.list")
    IN
    IF c.err # Nil THEN [ok |-> FALSE, err |-> c.err, calls |-> <<>>]
    ELSE IF env.failAt = 1
    THEN [ok |-> TRUE, err |-> Nil, calls |-> <<v, v, n, s>>]
    ELSE IF env.failAt = 2
    THEN [ok |-> FALSE, err |-> Wrap("failed to list nodes", ApiError), calls |-> <<v, n>>]
    ELSE IF env.failAt = 3
    THEN [ok |-> FALSE, err |-> Wrap("failed to list namespaces", ApiError),
          calls |-> <<v, n, s>>]
    ELSE [ok |-> TRUE, err |-> Nil, calls |-> <<v, n, s>>]

\* Server version, node list, namespace list: three calls, each may fail.
GetClusterInfo(reg, clusterName, env) ==
    LET c == ResolveClient(reg, clusterName)
        v == ApiCall(c.client, "version")
        n == ApiCall(c.client, "nodes.list")
        s == ApiCall(c.client, "namespaces.list")
    IN
    IF c.err # Nil THEN [ok |-> FALSE, err |-> c.err, calls |-> <<>>]
    ELSE IF env.failAt = 1
    THEN [ok |-> FALSE, err |-> Wrap("failed to get server version", ApiError), calls |-> <<v>>]
    ELSE IF env.failAt = 2
    THEN [ok |-> FALSE, err |-> Wrap("failed to list nodes", ApiError), calls |-> <<v, n>>]
    ELSE IF env.failAt = 3
    THEN [ok |-> FALSE, err |-> Wrap("failed to list namespaces", ApiError),
          calls |-> <<v, n, s>>]
    ELSE [ok |-> TRUE, err |-> Nil, calls |-> <<v, n, s>>]

\* ------------------------------------------------------------------------
\* Protocol message model (JSON-RPC 2.0 envelopes)
\* ------------------------------------------------------------------------
ParseError == -32700
InvalidRequest == -32600
MethodNotFound == -32601
InvalidParams == -32602
InternalError == -32603

ProtocolVersion == "2025-06-18"

\* A JSON number is written hi * 2^27 + lo so that values beyond 2^53 fit.
LoBase == 134217728
ExactLimitHi == 67108864

\* The "id" member of an input line: absent, a string or a number.
IdAbsent == [t |-> "absent", s |-> "", hi |-> 0, lo |-> 0]
IdString(str) == [t |-> "string", s |-> str, hi |-> 0, lo |-> 0]
IdNumber(hi, lo) == [t |-> "number", s |-> "", hi |-> hi, lo |-> lo]
IdTokens == {IdAbsent, IdString("x"), IdNumber(0, 1), IdNumber(ExactLimitHi, 1)}

\* strconv.ParseFloat of an integer below 2^54: exact up to 2^53, rounded to
\* the nearest even multiple of two above it.
Float64(hi, lo) ==
    IF hi < ExactLimitHi \/ lo % 2 = 0 THEN [hi |-> hi, lo |-> lo]
    ELSE IF lo % 4 = 1 THEN [hi |-> hi, lo |-> lo - 1]
    ELSE IF lo + 1 = LoBase THEN [hi |-> hi + 1, lo |-> 0]
    ELSE [hi |-> hi, lo |-> lo + 1]

\* json.Unmarshal of the id member into interface{}: nil, string or float64.
GoNil == [t |-> "nil", s |-> "", hi |-> 0, lo |-> 0]
DecodeID(tok) ==
    CASE tok.t = "absent" -> GoNil
      [] tok.t = "string" -> [t |-> "string", s |-> tok.s, hi |-> 0, lo |-> 0]
      [] tok.t = "number" -> [t |-> "float64", s |-> "",
                              hi |-> Float64(tok.hi, tok.lo).hi,
                              lo |-> Float64(tok.hi, tok.lo).lo]

\* json.Marshal of a response's ID: null, a string or the float's digits.
IdNull == [t |-> "null", s |-> "", hi |-> 0, lo |-> 0]
EncodeID(id) ==
    CASE id.t = "nil" -> IdNull
      [] id.t = "string" -> IdString(id.s)
      [] id.t = "float64" -> IdNumber(id.hi, id.lo)

\* JSON member values of params: a string, a number, or the member is absent.
JStr(str) == <<"string", str>>
JNum == <<"number", "42">>
JAbsent == <<"absent", "">>
IsStr(j) == j[1] = "string"

\* Strings the code takes apart are kept as their pieces.
Slash == "/"
ClusterPrefix == <<"k8s://cluster", Slash>>
ClustersURI == <<"k8s://cluster", "s">>
ClusterURI(name, rest) == ClusterPrefix \o <<name, Slash>> \o rest
NoURI == <<>>

\* The params member.  shape: "nil" (absent or null), "bad" (a JSON value that
\* is not an object), "obj".  An object's members: name, arguments (argShape
\* "absent", "bad" for a non-object, "map"), uri and protocolVersion.
Params(shape, name, argShape, args, uriShape, uri, pv) ==
    [shape |-> shape, name |-> name, argShape |-> argShape, args |-> args,
     uriShape |-> uriShape, uri |-> uri, pv |-> pv]
NoArgs == [k \in {} |-> JAbsent]
NilParams == Params("nil", JAbsent, "absent", NoArgs, "absent", NoURI, JAbsent)
BadParams == Params("bad", JAbsent, "absent", NoArgs, "absent", NoURI, JAbsent)
CallParams(name, argShape, args) ==
    Params("obj", name, argShape, args, "absent", NoURI, JAbsent)
ReadParams(uriShape, uri) ==
    Params("obj", JAbsent, "absent", NoArgs, uriShape, uri, JAbsent)
InitParams(pv) == Params("obj", JAbsent, "absent", NoArgs, "absent", NoURI, pv)

\* JSONRPCRequest as decoded by Receive.
Request(id, method, params) == [id |-> id, method |-> method, params |-> params]
NoRequest == Request(GoNil, "", NilParams)

\* Results and error objects of a JSONRPCResponse.
Result(kind, text, isError) == [kind |-> kind, text |-> text, isError |-> isError]
NoResult == Result("none", <<>>, FALSE)
NewJSONRPCError(code, message, data) == [code |-> code, message |-> message, data |-> data]
NoError == NewJSONRPCError(0, "", <<>>)

NewJSONRPCResponse(id, result) ==
    [isNil |-> FALSE, id |-> id, result |-> result, error |-> NoError]
NewJSONRPCErrorResponse(id, err) ==
    [isNil |-> FALSE, id |-> id, result |-> NoResult, error |-> err]
\* Dispatch's plain "return nil".
NilResponse == [isNil |-> TRUE, id |-> GoNil, result |-> NoResult, error |-> NoError]

\* ------------------------------------------------------------------------
\* stdio server: tool handlers (tools/call)
\* ------------------------------------------------------------------------
\* What a handler hands back: its result and error, the registry as it left
\* it, and the API calls it issued.
HOut(result, err, reg, calls) == [result |-> result, err |-> err, reg |-> reg, calls |-> calls]

ToolText(text) == Result("CallToolResult", text, FALSE)
ToolError(text) == Result("CallToolResult", text, TRUE)

\* The type assertion args[key].(string) on a possibly nil map.
ArgString(args, key) ==
    IF key \in DOMAIN args /\ IsStr(args[key])
    THEN [ok |-> TRUE, v |-> args[key][2]]
    ELSE [ok |-> FALSE, v |-> ""]

\* The listing body (one line per cluster, in map order) is left out of the
\* text; the "(current)" mark is kept.
handleListClusters(reg) ==
    HOut(ToolText(<<"Available clusters:">> \o
                  (IF GetCurrentCluster(reg) \in GetClusters(reg)
                   THEN <<GetCurrentCluster(reg), "(current)">> ELSE <<>>)),
         Nil, reg, <<>>)

\* handleSwitchCluster with the error of SwitchCluster handed on to the
\* dispatcher instead of being put into the result.
handleSwitchClusterRaising(reg, args) ==
    LET name == ArgString(args, "cluster_name")
        r == SwitchCluster(reg, name.v)
    IN
    IF ~name.ok \/ r.err # Nil
    THEN HOut(NoResult, <<"switch failed">>, reg, <<>>)
    ELSE HOut(ToolText(<<"Successfully switched to cluster:", name.v>>), Nil, r.reg, <<>>)

handleSwitchCluster(reg, args) ==
    LET name == ArgString(args, "cluster_name")
        r == SwitchCluster(reg, name.v)
    IN
    IF ~name.ok
    THEN HOut(ToolError(<<"cluster_name parameter is required and must be a string">>),
              Nil, reg, <<>>)
    ELSE IF r.err # Nil
    THEN HOut(ToolError(<<"Failed to switch to cluster", name.v>> \o r.err), Nil, reg, <<>>)
    ELSE HOut(ToolText(<<"Successfully switched to cluster:", name.v>>), Nil, r.reg, <<>>)

handleGetCurrentCluster(reg) ==
    IF GetCurrentCluster(reg) = ""
    THEN HOut(ToolText(<<"No current cluster set">>), Nil, reg, <<>>)
    ELSE HOut(ToolText(<<"Current cluster:", GetCurrentCluster(reg)>>), Nil, reg, <<>>)

handleListNamespaces(reg, args, env) ==
    LET clusterName == ArgString(args, "cluster_name").v
        r == ListNamespaces(reg, clusterName, env)
    IN
    IF r.err # Nil
    THEN HOut(ToolError(<<"Failed to list namespaces:">> \o r.err), Nil, reg, r.calls)
    ELSE HOut(ToolText(<<"Namespaces in cluster", clusterName>>), Nil, reg, r.calls)

handleListResources(reg, args, env) ==
    LET resourceType == ArgString(args, "resource_type")
        clusterName == ArgString(args, "cluster_name").v
        r == ListResourcesByType(reg, resourceType.v, clusterName, env)
    IN
    IF ~resourceType.ok
    THEN HOut(ToolError(<<"resource_type parameter is required">>), Nil, reg, <<>>)
    ELSE IF r.err # Nil
    THEN HOut(ToolError(<<"Failed to list", resourceType.v>> \o r.err), Nil, reg, r.calls)
    ELSE IF r.items = 0
    THEN HOut(ToolText(<<"No found", resourceType.v>>), Nil, reg, r.calls)
    ELSE HOut(ToolText(<<resourceType.v, ":">>), Nil, reg, r.calls)

\* The serialized object as the text of a content item.
JsonText(doc) ==
    [i \in 1..(3 * Len(doc)) |->
        LET member == doc[((i - 1) \div 3) + 1] IN
        CASE (i - 1) % 3 = 0 -> member[1]
          [] (i - 1) % 3 = 1 -> member[2][1]
          [] (i - 1) % 3 = 2 -> member[2][2]]

handleGetResource(reg, args, env) ==
    LET resourceType == ArgString(args, "resource_type")
        name == ArgString(args, "name")
        clusterName == ArgString(args, "cluster_name").v
        r == GetResourceDetails(reg, resourceType.v, name.v, clusterName, env)
    IN
    IF ~resourceType.ok
    THEN HOut(ToolError(<<"resource_type parameter is required">>), Nil, reg, <<>>)
    ELSE IF ~name.ok
    THEN HOut(ToolError(<<"name parameter is required">>), Nil, reg, <<>>)
    ELSE IF r.err # Nil
    THEN HOut(ToolError(<<"Failed to get", resourceType.v, name.v>> \o r.err),
              Nil, reg, r.calls)
    ELSE HOut(ToolText(JsonText(SerializeResource(r.resource))), Nil, reg, r.calls)

handleDescribeResource(reg, args, env) ==
    LET resourceType == ArgString(args, "resource_type")
        name == ArgString(args, "name")
        clusterName == ArgString(args, "cluster_name").v
        r == DescribeResource(reg, resourceType.v, name.v, clusterName, env)
    IN
    IF ~resourceType.ok
    THEN HOut(ToolError(<<"resource_type parameter is required">>), Nil, reg, <<>>)
    ELSE IF ~name.ok
    THEN HOut(ToolError(<<"name parameter is required">>), Nil, reg, <<>>)
    ELSE IF r.err # Nil
    THEN HOut(ToolError(<<"Failed to describe", resourceType.v, name.v>> \o r.err),
              Nil, reg, r.calls)
    ELSE HOut(ToolText(JsonText(r.text)), Nil, reg, r.calls)

ToolNames == {"list_clusters", "switch_cluster", "get_current_cluster", "list_namespaces",
              "list_resources", "get_resource", "describe_resource"}

HandleCallTool(reg, req, env) ==
    CASE req.name = "list_clusters" -> handleListClusters(reg)
      [] req.name = "switch_cluster" -> handleSwitchCluster(reg, req.args)
      [] req.name = "get_current_cluster" -> handleGetCurrentCluster(reg)
      [] req.name = "list_namespaces" -> handleListNamespaces(reg, req.args, env)
      [] req.name = "list_resources" -> handleListResources(reg, req.args, env)
      [] req.name = "get_resource" -> handleGetResource(reg, req.args, env)
      [] req.name = "describe_resource" -> handleDescribeResource(reg, req.args, env)
      [] OTHER -> HOut(ToolError(<<"Unknown tool:", req.name>>), Nil, reg, <<>>)

\* ------------------------------------------------------------------------
\* stdio server: resources, prompts, initialize
\* ------------------------------------------------------------------------
HasPrefix(str, prefix) ==
    Len(str) >= Len(prefix) /\ SubSeq(str, 1, Len(prefix)) = prefix

TrimPrefix(str, prefix) ==
    IF HasPrefix(str, prefix) THEN SubSeq(str, Len(prefix) + 1, Len(str)) ELSE str

\* strings.Split(str, sep): the pieces between separators, empty ones kept.
RECURSIVE Split(_, _)
Split(str, sep) ==
    IF str = <<>> THEN <<"">>
    ELSE LET rest == Split(Tail(str), sep) IN
         IF Head(str) = sep THEN <<"">> \o rest
         ELSE <<Head(str) \o Head(rest)>> \o Tail(rest)

ReadText(text) == Result("ReadResourceResult", text, FALSE)

HandleListResources(reg) ==
    HOut(Result("ListResourcesResult", <<"k8s://clusters">>, FALSE), Nil, reg, <<>>)

readClustersResource(reg) ==
    HOut(ReadText(<<"clusters", "current", GetCurrentCluster(reg)>>), Nil, reg, <<>>)

readClusterInfo(reg, clusterName, env) ==
    LET r == GetClusterInfo(reg, clusterName, env) IN
    IF r.err # Nil
    THEN HOut(NoResult, Wrap("failed to get cluster info", r.err), reg, r.calls)
    ELSE HOut(ReadText(<<"cluster-info", clusterName>>), Nil, reg, r.calls)

\* readClusterNamespaces reporting a failed listing as an empty document.
readClusterNamespacesQuiet(reg, clusterName, env) ==
    LET r == ListNamespaces(reg, clusterName, env) IN
    HOut(ReadText(<<"cluster-namespaces", clusterName>>), Nil, reg, r.calls)

readClusterNamespaces(reg, clusterName, env) ==
    LET r == ListNamespaces(reg, clusterName, env) IN
    IF r.err # Nil
    THEN HOut(NoResult, Wrap("failed to list namespaces", r.err), reg, r.calls)
    ELSE HOut(ReadText(<<"cluster-namespaces", clusterName>>), Nil, reg, r.calls)

readClusterResource(reg, uri, env) ==
    LET parts == Split(TrimPrefix(uri, ClusterPrefix), Slash) IN
    IF Len(parts) < 2
    THEN HOut(NoResult, <<"invalid cluster resource URI format">>, reg, <<>>)
    ELSE CASE parts[2] = "info" -> readClusterInfo(reg, parts[1], env)
           [] parts[2] = "namespaces" -> readClusterNamespaces(reg, parts[1], env)
           [] OTHER -> HOut(NoResult, Errorf("unsupported cluster resource type", parts[2]),
                            reg, <<>>)

HandleReadResource(reg, req, env) ==
    IF req.uri = ClustersURI THEN readClustersResource(reg)
    ELSE IF HasPrefix(req.uri, ClusterPrefix) THEN readClusterResource(reg, req.uri, env)
    ELSE HOut(NoResult, <<"unsupported resource URI">> \o req.uri, reg, <<>>)

HandleListTools(reg) ==
    HOut(Result("ListToolsResult", <<"tools">>, FALSE), Nil, reg, <<>>)

HandleListPrompts(reg) ==
    HOut(Result("ListPromptsResult", <<"prompts">>, FALSE), Nil, reg, <<>>)

PromptNames == {"analyze_cluster_health", "troubleshoot_pods", "resource_summary"}

\* args["cluster_name"] of a map[string]string, defaulting to the current
\* cluster when it is empty.
PromptCluster(reg, args) ==
    IF "cluster_name" \in DOMAIN args /\ args["cluster_name"][2] # ""
    THEN args["cluster_name"][2]
    ELSE GetCurrentCluster(reg)

HandleGetPrompt(reg, req) ==
    IF req.name \in PromptNames
    THEN HOut(Result("GetPromptResult", <<req.name, PromptCluster(reg, req.args)>>, FALSE),
              Nil, reg, <<>>)
    ELSE HOut(NoResult, Errorf("unknown prompt", req.name), reg, <<>>)

\* A version mismatch is only logged.
HandleInitialize(reg, req) ==
    HOut(Result("InitializeResult", <<ProtocolVersion, "k8s-mcp-server">>, FALSE),
         Nil, reg, <<>>)

\* ------------------------------------------------------------------------
\* Dispatcher
\* ------------------------------------------------------------------------
\* The typed request unmarshalParams fills in (zero values for what is absent).
Decoded(name, args, uri, pv) == [name |-> name, args |-> args, uri |-> uri, pv |-> pv]
ZeroRequest == Decoded("", NoArgs, NoURI, "")
StrOrZero(j) == IF IsStr(j) THEN j[2] ELSE ""

\* unmarshalParams: nil params leave the target zero; otherwise the params
\* are re-marshalled and unmarshalled into the target struct, which fails when
\* a member has the wrong JSON type for its field.
unmarshalParams(params, target) ==
    LET mismatch ==
            CASE target = "InitializeRequest" -> params.pv[1] = "number"
              [] target = "CallToolRequest" ->
                    params.name[1] = "number" \/ params.argShape = "bad"
              [] target = "ReadResourceRequest" -> params.uriShape = "number"
              [] target = "GetPromptRequest" ->
                    \/ params.name[1] = "number"
                    \/ params.argShape = "bad"
                    \/ \E k \in DOMAIN params.args : ~IsStr(params.args[k])
    IN
    IF params.shape = "nil" THEN [err |-> Nil, value |-> ZeroRequest]
    ELSE IF params.shape = "bad" \/ mismatch
    THEN [err |-> <<"failed to unmarshal params">>, value |-> ZeroRequest]
    ELSE [err |-> Nil,
          value |-> Decoded(StrOrZero(params.name), params.args,
                            IF params.uriShape = "string" THEN params.uri ELSE NoURI,
                            StrOrZero(params.pv))]

\* What one dispatch leaves behind.
DOut(resp, reg, stages, calls) ==
    [response |-> resp, reg |-> reg, trace |-> stages, calls |-> calls]

\* The same shape with the handler called whatever the decoding said.
WrappedUnchecked(req, reg, decodeErr, handlerName, out, failMsg) ==
    IF out.err # Nil
    THEN DOut(NewJSONRPCErrorResponse(req.id,
                  NewJSONRPCError(InternalError, failMsg, out.err)),
              out.reg, <<"ParamsDecoded", handlerName>>, out.calls)
    ELSE DOut(NewJSONRPCResponse(req.id, out.result),
              out.reg, <<"ParamsDecoded", handlerName>>, out.calls)

\* The shape of handleInitialize, handleCallTool, handleReadResource and
\* handleGetPrompt: decode, call the handler, wrap.
Wrapped(req, reg, decodeErr, handlerName, out, failMsg) ==
    IF decodeErr # Nil
    THEN DOut(NewJSONRPCErrorResponse(req.id,
                  NewJSONRPCError(InvalidParams, "Invalid parameters", decodeErr)),
              reg, <<>>, <<>>)
    ELSE IF out.err # Nil
    THEN DOut(NewJSONRPCErrorResponse(req.id,
                  NewJSONRPCError(InternalError, failMsg, out.err)),
              out.reg, <<"ParamsDecoded", handlerName>>, out.calls)
    ELSE DOut(NewJSONRPCResponse(req.id, out.result),
              out.reg, <<"ParamsDecoded", handlerName>>, out.calls)

\* The shape of handleListTools, handleListResources and handleListPrompts.
Unwrapped(req, handlerName, out, failMsg) ==
    IF out.err # Nil
    THEN DOut(NewJSONRPCErrorResponse(req.id,
                  NewJSONRPCError(InternalError, failMsg, out.err)),
              out.reg, <<handlerName>>, out.calls)
    ELSE DOut(NewJSONRPCResponse(req.id, out.result), out.reg, <<handlerName>>, out.calls)

handleInitialize(req, reg) ==
    LET d == unmarshalParams(req.params, "InitializeRequest") IN
    Wrapped(req, reg, d.err, "HandleInitialize", HandleInitialize(reg, d.value),
            "Initialize failed")

handleListTools(req, reg) ==
    Unwrapped(req, "HandleListTools", HandleListTools(reg), "List tools failed")

handleCallTool(req, reg, env) ==
    LET d == unmarshalParams(req.params, "CallToolRequest") IN
    Wrapped(req, reg, d.err, "HandleCallTool", HandleCallTool(reg, d.value, env),
            "Tool call failed")

handleListResourcesRequest(req, reg) ==
    Unwrapped(req, "HandleListResources", HandleListResources(reg), "List resources failed")

handleReadResource(req, reg, env) ==
    LET d == unmarshalParams(req.params, "ReadResourceRequest") IN
    Wrapped(req, reg, d.err, "HandleReadResource", HandleReadResource(reg, d.value, env),
            "Read resource failed")

handleListPrompts(req, reg) ==
    Unwrapped(req, "HandleListPrompts", HandleListPrompts(reg), "List prompts failed")

handleGetPrompt(req, reg) ==
    LET d == unmarshalParams(req.params, "GetPromptRequest") IN
    Wrapped(req, reg, d.err, "HandleGetPrompt", HandleGetPrompt(reg, d.value),
            "Get prompt failed")

handlePing(req, reg) ==
    DOut(NewJSONRPCResponse(req.id, Result("empty", <<>>, FALSE)), reg, <<>>, <<>>)

\* The static routing table of Dispatch's switch.
RoutedMethods == {"initialize", "tools/list", "tools/call", "resources/list",
                  "resources/read", "prompts/list", "prompts/get", "ping",
                  "notifications/initialized"}

\* A dispatcher whose default branch answers like ping.
DispatchLenient(req, reg, env) ==
    CASE req.method = "initialize" -> handleInitialize(req, reg)
      [] req.method = "tools/list" -> handleListTools(req, reg)
      [] req.method = "tools/call" -> handleCallTool(req, reg, env)
      [] req.method = "resources/list" -> handleListResourcesRequest(req, reg)
      [] req.method = "resources/read" -> handleReadResource(req, reg, env)
      [] req.method = "prompts/list" -> handleListPrompts(req, reg)
      [] req.method = "prompts/get" -> handleGetPrompt(req, reg)
      [] req.method = "notifications/initialized" -> DOut(NilResponse, reg, <<>>, <<>>)
      [] OTHER -> handlePing(req, reg)

Dispatch(req, reg, env) ==
    CASE req.method = "initialize" -> handleInitialize(req, reg)
      [] req.method = "tools/list" -> handleListTools(req, reg)
      [] req.method = "tools/call" -> handleCallTool(req, reg, env)
      [] req.method = "resources/list" -> handleListResourcesRequest(req, reg)
      [] req.method = "resources/read" -> handleReadResource(req, reg, env)
      [] req.method = "prompts/list" -> handleListPrompts(req, reg)
      [] req.method = "prompts/get" -> handleGetPrompt(req, reg)
      [] req.method = "ping" -> handlePing(req, reg)
      [] req.method = "notifications/initialized" -> DOut(NilResponse, reg, <<>>, <<>>)
      [] OTHER -> DOut(NewJSONRPCErrorResponse(req.id,
                           NewJSONRPCError(MethodNotFound, "Method not found",
                                           <<req.method>>)),
                       reg, <<>>, <<>>)

\* ------------------------------------------------------------------------
\* stdio transport
\* ------------------------------------------------------------------------
\* One read of stdin: end of input, a read error of the scanner, a line that
\* does not unmarshal into JSONRPCRequest (not JSON at all, or JSON with an id
\* member beside a member of the wrong type), or an envelope.
Line(kind, id, method, params) == [kind |-> kind, id |-> id, method |-> method, params |-> params]
NoLine == Line("none", IdAbsent, "", NilParams)

EOF == <<"EOF">>

\* A Receive that reports the end of input as a read failure.
ReceiveWithoutEOF(scannerFailed, l) ==
    IF scannerFailed \/ l.kind \in {"readerr", "eof"}
    THEN [request |-> NoRequest, err |-> <<"failed to read from stdin">>, failed |-> TRUE]
    ELSE IF l.kind = "badjson"
    THEN [request |-> NoRequest, err |-> <<"failed to unmarshal request">>, failed |-> FALSE]
    ELSE [request |-> Request(DecodeID(l.id), l.method, l.params), err |-> Nil,
          failed |-> FALSE]

\* StdioTransport.Receive.  A scanner that failed keeps failing.
Receive(scannerFailed, l) ==
    IF scannerFailed \/ l.kind = "readerr"
    THEN [request |-> NoRequest, err |-> <<"failed to read from stdin">>, failed |-> TRUE]
    ELSE IF l.kind = "eof"
    THEN [request |-> NoRequest, err |-> EOF, failed |-> FALSE]
    ELSE IF l.kind = "badjson"
    THEN [request |-> NoRequest, err |-> <<"failed to unmarshal request">>, failed |-> FALSE]
    ELSE [request |-> Request(DecodeID(l.id), l.method, l.params), err |-> Nil,
          failed |-> FALSE]

\* The JSON text StdioTransport.Send writes for a response.
WireResponse(resp) == [id |-> EncodeID(resp.id), result |-> resp.result, error |-> resp.error]

\* ------------------------------------------------------------------------
\* Inputs of the stdio server
\* ------------------------------------------------------------------------
\* All maps that give some of the keys a value out of the key's value set.
ArgMaps(choices) ==
    UNION {{f \in [d -> UNION {choices[k] : k \in d}] : \A k \in d : f[k] \in choices[k]} :
           d \in SUBSET DOMAIN choices}

ClusterArgValues == {JStr(n) : n \in ClusterNames \cup {UnknownName}} \cup {JNum}
TypeArgValues == {JStr("pods"), JStr("secret"), JStr("events"), JStr("bogus"), JNum}
NameArgValues == {JStr("n"), JNum}

ClusterArgs == ArgMaps([cluster_name |-> ClusterArgValues])
ListArgs == ArgMaps([cluster_name |-> ClusterArgValues, resource_type |-> TypeArgValues])
GetArgs == ArgMaps([cluster_name |-> ClusterArgValues, resource_type |-> TypeArgValues,
                    name |-> NameArgValues])

ToolCallParams ==
    {NilParams, BadParams, CallParams(JNum, "absent", NoArgs),
     CallParams(JStr("list_clusters"), "bad", NoArgs),
     CallParams(JAbsent, "absent", NoArgs)}
    \cup {CallParams(JStr(n), "absent", NoArgs) : n \in ToolNames \cup {"no_such_tool"}}
    \cup {CallParams(JStr(n), "map", a) :
            n \in {"switch_cluster", "list_namespaces"}, a \in ClusterArgs}
    \cup {CallParams(JStr("list_resources"), "map", a) : a \in ListArgs}
    \cup {CallParams(JStr(n), "map", a) :
            n \in {"get_resource", "describe_resource"}, a \in GetArgs}

ResourceURIs ==
    {ClustersURI, <<"file://x">>, <<"k8s://cluster">>, ClusterPrefix}
    \cup {ClusterPrefix \o <<n>> : n \in ClusterNames \cup {UnknownName}}
    \cup {ClusterURI(n, <<t>>) : n \in ClusterNames \cup {UnknownName},
                                 t \in {"info", "namespaces", "pods"}}

ReadResourceParams ==
    {NilParams, BadParams, ReadParams("number", NoURI), ReadParams("absent", NoURI)}
    \cup {ReadParams("string", u) : u \in ResourceURIs}

GetPromptParams ==
    {NilParams, BadParams, CallParams(JNum, "absent", NoArgs)}
    \cup {CallParams(JStr(n), "map", a) :
            n \in PromptNames \cup {"no_such_prompt"},
            a \in ArgMaps([cluster_name |-> {JStr("a"), JStr(""), JNum}])}

InitializeParams ==
    {NilParams, BadParams, InitParams(JNum), InitParams(JStr(ProtocolVersion)),
     InitParams(JStr("2024-11-05"))}

UnroutedMethods == {"tools/run", "notifications/cancelled"}

ParamsFor(method) ==
    CASE method = "initialize" -> InitializeParams
      [] method = "tools/call" -> ToolCallParams
      [] method = "resources/read" -> ReadResourceParams
      [] method = "prompts/get" -> GetPromptParams
      [] OTHER -> {NilParams}

Lines ==
    {Line("eof", IdAbsent, "", NilParams), Line("readerr", IdAbsent, "", NilParams)}
    \cup {Line("badjson", id, "", NilParams) : id \in IdTokens}
    \cup UNION {{Line("json", id, m, p) : id \in IdTokens, p \in ParamsFor(m)} :
                m \in RoutedMethods \cup UnroutedMethods}

\* The answers of the cluster that can matter to a request.
EnvsFor(req) ==
    CASE req.method = "resources/read" ->
            {e \in ApiEnvs : e.items = 0 /\ e.data = NoData /\ e.stringData = NoData}
      [] req.method = "tools/call" /\ StrOrZero(req.params.name) \in
                {"list_namespaces", "list_resources"} ->
            {e \in ApiEnvs : e.failAt <= 1 /\ e.data = NoData /\ e.stringData = NoData}
      [] req.method = "tools/call" /\ StrOrZero(req.params.name) \in
                {"get_resource", "describe_resource"} ->
            {e \in ApiEnvs : /\ e.failAt <= 1
                             /\ e.items = 0
                             /\ e.stringData = NoData
                             /\ (e.failAt = 1 => e.data = NoData)
                             /\ (ArgString(req.params.args, "resource_type").v
                                    \notin {"secret", "secrets"}
                                 => e.data = NoData /\ e.stringData = NoData)}
      [] OTHER -> {QuietEnv}

\* ------------------------------------------------------------------------
\* Inputs of the registry operations
\* ------------------------------------------------------------------------
\* clientcmd builds no client config for a context that names no cluster.
Contexts == {c \in [cluster : ClusterNames, ok : BOOLEAN] : c.cluster = "" => ~c.ok}

\* A kubeconfig file: unreadable, or a map from context names to contexts.
KubeConfigs ==
    {[loadable |-> FALSE, contexts |-> EmptyMap]} \cup
    {[loadable |-> TRUE, contexts |-> c] :
        c \in UNION {[d -> Contexts] : d \in SUBSET ContextNames}}

\* Go iterates a map in an unspecified order: every ordering of the keys.
Orders(S) == {o \in [1..Cardinality(S) -> S] : \A i, j \in 1..Cardinality(S) :
                                                   i # j => o[i] # o[j]}

Reg == Registry(clusters, currentCluster)

SetReg(reg) ==
    /\ clusters' = reg.clusters
    /\ currentCluster' = reg.current

OpRecord(op, arg, err) == [op |-> op, arg |-> arg, err |-> err]

\* ------------------------------------------------------------------------
\* HTTP variant: bearer-token gate and the get_resource tools
\* ------------------------------------------------------------------------
\* Header values and tokens are strings taken character by character.
TokenChars == {"a", "b"}
Tokens == UNION {[1..n -> TokenChars] : n \in 0..MaxTokenLen}
\* executeServer exits unless --token is non-empty.
ServerTokens == Tokens \ {<<>>}

BearerPrefix == <<"B", "e", "a", "r", "e", "r", " ">>
HeaderPrefixes == {BearerPrefix,
                   <<"B", "e", "a", "r", "e", "r">>,
                   <<"b", "e", "a", "r", "e", "r", " ">>,
                   <<"B", "a", "s", "i", "c", " ">>,
                   <<>>}
\* Authorization header values a client can send; Header.Get gives "" for a
\* request without the header.
AuthHeaders == {prefix \o token : prefix \in HeaderPrefixes, token \in Tokens}

StatusUnauthorized == 401

\* A comparison that stops at the end of the shorter operand.
ConstantTimeComparePrefix(x, y) ==
    LET n == IF Len(x) < Len(y) THEN Len(x) ELSE Len(y) IN
    IF \A i \in 1..n : x[i] = y[i] THEN 1 ELSE 0

\* subtle.ConstantTimeCompare: 0 for operands of different lengths, else 1
\* exactly when every byte agrees.
ConstantTimeCompare(x, y) ==
    IF Len(x) # Len(y) THEN 0
    ELSE IF \A i \in 1..Len(x) : x[i] = y[i] THEN 1 ELSE 0

\* What the middleware did: the status it wrote (0: none), the error body,
\* and whether it called next.ServeHTTP.
Gate(status, body, next) == [status |-> status, body |-> body, next |-> next]

AuthMiddleware(token, authHeader) ==
    IF authHeader = <<>>
    THEN Gate(StatusUnauthorized, "Authorization header required", FALSE)
    ELSE IF \/ Len(authHeader) < Len(BearerPrefix)
            \/ SubSeq(authHeader, 1, Len(BearerPrefix)) # BearerPrefix
    THEN Gate(StatusUnauthorized, "Invalid authorization header format", FALSE)
    ELSE IF ConstantTimeCompare(SubSeq(authHeader, Len(BearerPrefix) + 1, Len(authHeader)),
                                token) # 1
    THEN Gate(StatusUnauthorized, "Invalid token", FALSE)
    ELSE Gate(0, "", TRUE)

\* redactSecretData: the type assertion resource.(map[string]interface{})
\* and, when it holds, the overwrite of the keys "data" and "stringData".
redactSecretData(resource) ==
    IF resource.gotype = "map[string]interface{}"
    THEN [resource EXCEPT !.data = IF @ # NoData THEN Redacted ELSE @,
                          !.stringData = IF @ # NoData THEN Redacted ELSE @]
    ELSE resource

\* The typed tool handlers return (nil, output, err): the output kind, the
\* serialized document in it, the error, and the API calls issued.
TOut(kind, doc, err, calls) == [kind |-> kind, doc |-> doc, err |-> err, calls |-> calls]

GetResourceInput(resourceType, name, namespace) ==
    [resource_type |-> resourceType, name |-> name, namespace |-> namespace]

handleGetResourceHTTP(reg, input, env) ==
    LET got == GetResourceDetails(reg, input.resource_type, input.name, "", env)
        resource == IF input.resource_type \in {"secrets", "secret"}
                    THEN redactSecretData(got.resource) ELSE got.resource
    IN
    IF got.err # Nil
    THEN TOut("ResourceResult", <<>>, Wrap("failed to get resource", got.err), got.calls)
    ELSE TOut("ResourceResult", SerializeResource(resource), Nil, got.calls)

handleGetResourceYAML(reg, input, env) ==
    LET got == GetResourceDetails(reg, input.resource_type, input.name, "", env)
        resource == IF input.resource_type \in {"secrets", "secret"}
                    THEN redactSecretData(got.resource) ELSE got.resource
    IN
    IF got.err # Nil
    THEN TOut("YAMLResult", <<>>, Wrap("failed to get resource", got.err), got.calls)
    ELSE TOut("YAMLResult", SerializeResource(resource), Nil, got.calls)

\* Inputs of the HTTP server.
HTTPTools == {"get_resource", "get_resource_yaml"}
HTTPResourceTypes == {"pods", "secret", "secrets", "bogus"}
HTTPInputs == {GetResourceInput(t, "n", "default") : t \in HTTPResourceTypes}
\* The answers of the cluster that can matter to a call; the API server
\* never returns stringData on a read.
HTTPEnvs(input) ==
    {e \in ApiEnvs : /\ e.failAt <= 1
                     /\ e.items = 0
                     /\ e.stringData = NoData
                     /\ (e.failAt = 1 => e.data = NoData)
                     /\ (input.resource_type \notin {"secret", "secrets"} => e.data = NoData)}

HTTPRequest(header, tool, input) == [header |-> header, tool |-> tool, input |-> input]
NoHTTPRequest == HTTPRequest(<<>>, "", GetResourceInput("", "", ""))
HTTPResponse(gate, handler, out) == [gate |-> gate, handler |-> handler, out |-> out]
NoHTTPResponse == HTTPResponse(Gate(0, "", FALSE), "", TOut("none", <<>>, Nil, <<>>))

\* Goroutines of the HTTP server: 0 is main (executeServer), the others are
\* the goroutines net/http starts for the requests it is serving.
Procs == 0..MaxWorkers
Workers == 1..MaxWorkers
AllIdle == [p \in Procs |-> "idle"]

NoCall == <<>>
NotCalled == [called |-> FALSE]
Returned(v) == [called |-> TRUE, value |-> v]
IdleCalls == callArgs = NoCall /\ callResult = NotCalled

IdleHTTP ==
    /\ IdleCalls
    /\ authToken = <<>>
    /\ httpReq = NoHTTPRequest
    /\ httpResp = NoHTTPResponse
    /\ access = AllIdle

\* ------------------------------------------------------------------------
\* Registry API called in any order (library use of ClusterManager); the
\* kubeconfig is loaded at most once, as both mains do.
\* ------------------------------------------------------------------------
InitRegistry ==
    /\ clusters = NewClusterManager.clusters
    /\ currentCluster = NewClusterManager.current
    /\ lastOp = OpRecord("new", "", Nil)
    /\ pc = "fresh" /\ scanErr = FALSE /\ line = NoLine /\ request = NoRequest
    /\ response = NilResponse /\ sent = <<>> /\ trace = <<>> /\ apiCalls = <<>>
    /\ apiEnv = QuietEnv
    /\ IdleHTTP

CallAddCluster ==
    \E name \in ClusterNames :
      \E config \in Configs(name) :
        LET r == AddCluster(Reg, name, config) IN
        /\ SetReg(r.reg)
        /\ lastOp' = OpRecord("AddCluster", name, r.err)
        /\ apiCalls' = <<>>
        /\ UNCHANGED <<libVars, httpVars>>
    /\ UNCHANGED callVars

CallLoadKubeConfig ==
    /\ pc = "fresh"
    /\ \E kubeconfig \in KubeConfigs :
        \E order \in Orders(DOMAIN kubeconfig.contexts) :
            LET r == LoadKubeConfigAndInitCluster(Reg, kubeconfig, order) IN
            /\ SetReg(r.reg)
            /\ lastOp' = OpRecord("LoadKubeConfig", "", r.err)
    /\ pc' = "loaded"
    /\ apiCalls' = <<>>
    /\ UNCHANGED <<scanErr, line, request, response, sent, trace, apiEnv>>
    /\ UNCHANGED httpVars
    /\ UNCHANGED callVars

CallSwitchCluster ==
    \E name \in ClusterNames \cup {UnknownName} :
        LET r == SwitchCluster(Reg, name) IN
        /\ SetReg(r.reg)
        /\ lastOp' = OpRecord("SwitchCluster", name, r.err)
        /\ apiCalls' = <<>>
        /\ UNCHANGED <<libVars, httpVars>>
    /\ UNCHANGED callVars

CallGetCurrentClient ==
    LET r == GetCurrentClient(Reg) IN
    /\ UNCHANGED <<clusters, currentCluster>>
    /\ lastOp' = OpRecord("GetCurrentClient", r.client, r.err)
    /\ apiCalls' = <<>>
    /\ UNCHANGED <<libVars, httpVars>>
    /\ UNCHANGED callVars

CallGetClientForCluster ==
    \E name \in ClusterNames \cup {UnknownName} :
        LET r == GetClientForCluster(Reg, name) IN
        /\ UNCHANGED <<clusters, currentCluster>>
        /\ lastOp' = OpRecord("GetClientForCluster", name, r.err)
        /\ apiCalls' = <<>>
        /\ UNCHANGED <<libVars, httpVars>>
    /\ UNCHANGED callVars

\* A resource operation called through the bridge: ListPods with or without
\* a cluster name.
CallListPods ==
    \E name \in ClusterNames \cup {UnknownName}, env \in ApiEnvs :
        /\ env.failAt <= 1 /\ env.items = 0
        /\ env.data = NoData /\ env.stringData = NoData
        /\ LET r == ListPods(Reg, name, env) IN
            /\ lastOp' = OpRecord("ListPods", name, r.err)
            /\ apiCalls' = r.calls
        /\ UNCHANGED <<clusters, currentCluster>>
        /\ UNCHANGED <<libVars, httpVars>>
    /\ UNCHANGED callVars

NextRegistry ==
    \/ CallAddCluster
    \/ CallLoadKubeConfig
    \/ CallSwitchCluster
    \/ CallGetCurrentClient
    \/ CallGetClientForCluster
    \/ CallListPods

SpecRegistry == InitRegistry /\ [][NextRegistry]_vars

\* ------------------------------------------------------------------------
\* stdio server: main and Server.Run
\* ------------------------------------------------------------------------
IdleStdio(at) ==
    /\ pc = at
    /\ scanErr = FALSE
    /\ line = NoLine
    /\ request = NoRequest
    /\ response = NilResponse
    /\ sent = <<>>
    /\ trace = <<>>
    /\ apiCalls = <<>>
    /\ apiEnv = QuietEnv

InitStdio ==
    /\ clusters = NewClusterManager.clusters
    /\ currentCluster = NewClusterManager.current
    /\ lastOp = OpRecord("new", "", Nil)
    /\ IdleStdio("start")
    /\ IdleHTTP

\* main: server.LoadKubeConfig(configPath); a failure is logged and the
\* server runs all the same.
StdioLoadKubeConfig ==
    /\ pc = "start"
    /\ \E kubeconfig \in KubeConfigs :
        \E order \in Orders(DOMAIN kubeconfig.contexts) :
            LET r == LoadKubeConfigAndInitCluster(Reg, kubeconfig, order) IN
            /\ SetReg(r.reg)
            /\ lastOp' = OpRecord("LoadKubeConfig", "", r.err)
    /\ pc' = "receive"
    /\ UNCHANGED <<scanErr, line, request, response, sent, trace, apiCalls, apiEnv>>
    /\ UNCHANGED httpVars
    /\ UNCHANGED callVars

\* Run: request, err := s.transport.Receive() and the branches on err; on
\* io.EOF the loop breaks and Run returns nil.
StdioReceive ==
    /\ pc = "receive"
    /\ \E l \in IF scanErr THEN {Line("readerr", IdAbsent, "", NilParams)} ELSE Lines :
        LET r == Receive(scanErr, l) IN
        /\ line' = l
        /\ scanErr' = r.failed
        /\ request' = r.request
        /\ pc' = IF r.err = EOF THEN "done" ELSE IF r.err # Nil THEN "iterated" ELSE "dispatch"
        /\ trace' = IF r.err = Nil THEN <<"Received">> ELSE <<>>
        /\ callResult' = IF r.err = EOF THEN Returned(Nil) ELSE callResult
    /\ UNCHANGED <<clusters, currentCluster, lastOp, response, sent, apiCalls, apiEnv>>
    /\ UNCHANGED httpVars
    /\ UNCHANGED callArgs

\* Run: response := s.dispatcher.Dispatch(request); a nil response is not sent.
StdioDispatch ==
    /\ pc = "dispatch"
    /\ \E env \in EnvsFor(request) :
        LET d == Dispatch(request, Reg, env) IN
        /\ SetReg(d.reg)
        /\ response' = d.response
        /\ trace' = trace \o d.trace
        /\ apiCalls' = d.calls
        /\ apiEnv' = env
        /\ pc' = IF d.response.isNil THEN "iterated" ELSE "send"
    /\ UNCHANGED <<lastOp, scanErr, line, request, sent>>
    /\ UNCHANGED httpVars
    /\ UNCHANGED callVars

\* Run: s.transport.Send(response); a failed write is logged.
StdioSend ==
    /\ pc = "send"
    /\ \E written \in BOOLEAN :
        /\ sent' = IF written THEN <<WireResponse(response)>> ELSE <<>>
        /\ trace' = IF written THEN trace \o <<"ResponseEmitted">> ELSE trace
    /\ pc' = "iterated"
    /\ UNCHANGED <<clusters, currentCluster, lastOp, scanErr, line, request, response,
                   apiCalls, apiEnv>>
    /\ UNCHANGED httpVars
    /\ UNCHANGED callVars

\* Run: the end of the loop body (or its continue); the iteration's locals
\* go out of scope and the loop receives again.
StdioIterate ==
    /\ pc = "iterated"
    /\ pc' = "receive"
    /\ line' = NoLine
    /\ request' = NoRequest
    /\ response' = NilResponse
    /\ sent' = <<>>
    /\ trace' = <<>>
    /\ apiCalls' = <<>>
    /\ apiEnv' = QuietEnv
    /\ UNCHANGED <<clusters, currentCluster, lastOp, scanErr>>
    /\ UNCHANGED httpVars
    /\ UNCHANGED callVars

NextStdio ==
    \/ StdioLoadKubeConfig
    \/ StdioReceive
    \/ StdioDispatch
    \/ StdioSend
    \/ StdioIterate

SpecStdio == InitStdio /\ [][NextStdio]_vars

\* ------------------------------------------------------------------------
\* Cluster Registry properties
\* ------------------------------------------------------------------------
Registered == DOMAIN clusters

\* C8: whenever at least one handle is registered, current names a
\* registered handle and resolving the current client succeeds (it never
\* reports that no current cluster is set), whatever the cluster names.
C8_CurrentValidWhenAnyHandle ==
    Registered # {} =>
        /\ currentCluster \in Registered
        /\ GetCurrentClient(Reg).err = Nil
        /\ (lastOp.op = "GetCurrentClient" => lastOp.err = Nil)

\* One SwitchCluster call, seen as a step of the registry.
SwitchStep ==
    lastOp'.op = "SwitchCluster" =>
        /\ clusters' = clusters
        /\ IF lastOp'.arg \in Registered
           THEN lastOp'.err = Nil /\ currentCluster' = lastOp'.arg
           ELSE lastOp'.err # Nil /\ currentCluster' = currentCluster
        /\ (currentCluster' \in Registered \/ currentCluster' = currentCluster)

\* Switching twice to the same registered name is the same as switching once.
SwitchIdempotent ==
    \A name \in Registered :
        LET once == SwitchCluster(Reg, name) IN
        /\ once.err = Nil
        /\ SwitchCluster(once.reg, name) = once

\* C9: switch to an unregistered name returns an error and leaves current
\* unchanged; switch to a registered name sets current to it; repeating the
\* switch succeeds and leaves the registry as it is; switch never leaves
\* current naming an absent handle.
C9_SwitchValidatesThenSets == [][SwitchStep]_vars /\ []SwitchIdempotent

C9_Witness ==
    /\ lastOp.op = "SwitchCluster"
    /\ lastOp.err # Nil
    /\ currentCluster \in Registered
    /\ Cardinality(Registered) >= 2

IsRegister(op) == op.op \in {"AddCluster", "LoadKubeConfig"}

RegisterStep ==
    /\ Registered \subseteq DOMAIN clusters'
    /\ (Registered = {} /\ lastOp'.op = "AddCluster" /\ lastOp'.err = Nil)
            => currentCluster' = lastOp'.arg
    /\ (Registered = {} /\ IsRegister(lastOp') /\ DOMAIN clusters' # {})
            => currentCluster' \in DOMAIN clusters'
    /\ (Registered # {} /\ IsRegister(lastOp'))
            => currentCluster' = currentCluster
    /\ (Registered # {} /\ currentCluster' # currentCluster)
            => (lastOp'.op = "SwitchCluster" /\ lastOp'.err = Nil)

\* C10: the first successful register makes that cluster current; every
\* later register (new or already registered name) leaves current
\* unchanged; the set of registered names never shrinks; after the first
\* registration only a successful switch changes current.
C10_RegisterFrame == [][RegisterStep]_vars

\* The cluster a resource operation resolves to: the one the caller names,
\* else the current one.
Target(name) == IF name # "" THEN name ELSE currentCluster

ResolveStep ==
    /\ (lastOp'.op = "ListPods") =>
            /\ clusters' = clusters /\ currentCluster' = currentCluster
            /\ IF Target(lastOp'.arg) # "" /\ Target(lastOp'.arg) \in Registered
               THEN apiCalls' = <<[client |-> clusters[Target(lastOp'.arg)],
                                   call |-> "pods.list"]>>
               ELSE apiCalls' = <<>> /\ lastOp'.err # Nil
    /\ (lastOp'.op = "AddCluster" /\ lastOp'.err = Nil /\ lastOp'.arg # "") =>
            currentCluster' = IF currentCluster = "" THEN lastOp'.arg ELSE currentCluster
    /\ (lastOp'.op = "SwitchCluster" /\ lastOp'.err = Nil) =>
            currentCluster' = lastOp'.arg

\* C11: cluster resolution follows the registry state at call time: the
\* first of two registered clusters is current until a switch makes the
\* other one current; a resource operation called without a cluster name
\* uses the current cluster's client, and one called with a cluster name
\* uses that cluster's client whatever current is.
C11_ResolutionFollowsRegistry == [][ResolveStep]_vars

C11_Witness ==
    /\ lastOp.op = "ListPods"
    /\ lastOp.arg = ""
    /\ lastOp.err = Nil
    /\ {"a", "b"} \subseteq Registered
    /\ currentCluster = "b"
    /\ clusters["a"] # clusters["b"]
    /\ apiCalls = <<[client |-> clusters["b"], call |-> "pods.list"]>>

\* A kubeconfig load has just returned an error.
LoadFailedStep == lastOp'.op = "LoadKubeConfig" /\ lastOp'.err # Nil /\ pc = "fresh"

\* C26: kubeconfig loading is all-or-nothing: when it returns an error, the
\* call has registered no cluster handle and current is unchanged.
C26_LoadAllOrNothing ==
    [][LoadFailedStep => (clusters' = clusters /\ currentCluster' = currentCluster)]_vars

\* ------------------------------------------------------------------------
\* Serving loop and dispatcher properties
\* ------------------------------------------------------------------------
InTrace(stage) == \E i \in 1..Len(trace) : trace[i] = stage

\* The loop body has run to its end for an envelope that was read.
Served == pc = "iterated" /\ line.kind = "json"
\* Dispatch has returned for the request in hand.
Dispatched == pc \in {"send", "iterated"} /\ line.kind = "json"

\* C3: every Request (an envelope with an id), whatever its method, is
\* answered by exactly one Response, and that Response carries the request's
\* id unchanged.
C3_RequestAnsweredOnce ==
    (Served /\ line.id # IdAbsent) => (Len(sent) = 1 /\ sent[1].id = line.id)

\* C4: a Notification (an envelope with a method and no id), whatever its
\* method name, never causes the server to send a Response.
C4_NotificationUnanswered ==
    (Served /\ line.id = IdAbsent) => sent = <<>>

HandlerNames == {"HandleInitialize", "HandleListTools", "HandleCallTool",
                 "HandleListResources", "HandleReadResource", "HandleListPrompts",
                 "HandleGetPrompt"}

UnknownMethodStep ==
    (pc = "dispatch" /\ pc' # "dispatch" /\ request.method \notin RoutedMethods) =>
        /\ ~response'.isNil
        /\ response'.id = request.id
        /\ response'.result = NoResult
        /\ response'.error.code = -32601
        /\ response'.error.data = <<request.method>>
        /\ \A i \in 1..Len(trace') : trace'[i] \notin HandlerNames
        /\ apiCalls' = <<>>
        /\ clusters' = clusters
        /\ currentCluster' = currentCluster

\* C5: for a request whose method is not in the routing table Dispatch
\* returns an error response with code -32601 whose data is the method name;
\* no handler is invoked and the Cluster Registry is unchanged.
C5_UnknownMethod == [][UnknownMethodStep]_vars

C5_Witness ==
    /\ pc = "send"
    /\ request.method \notin RoutedMethods
    /\ response.error.code = -32601
    /\ Registered # {}

\* The tools/call in hand, once its params decoded and HandleCallTool ran.
ToolCalled == Dispatched /\ request.method = "tools/call" /\ InTrace("HandleCallTool")
CalledTool == StrOrZero(request.params.name)
CallArg(key) == ArgString(request.params.args, key)

\* Resource types per GetSupportedResourceTypes; GetResourceDetails has no
\* case for events.
ListableTypes == {"pods", "pod", "services", "service", "deployments", "deployment",
                  "configmaps", "configmap", "secrets", "secret", "namespaces",
                  "namespace", "nodes", "node", "events", "event"}
GettableTypes == ListableTypes \ {"events", "event"}

\* The cluster a call names (or the current one when it names none) has no
\* usable handle.
NoSuchCluster(name) ==
    IF name # "" THEN name \notin Registered
    ELSE currentCluster = "" \/ currentCluster \notin Registered

UnknownToolFailure == CalledTool \notin ToolNames
MissingArgFailure ==
    \/ CalledTool = "switch_cluster" /\ ~CallArg("cluster_name").ok
    \/ CalledTool \in {"list_resources", "get_resource", "describe_resource"}
            /\ ~CallArg("resource_type").ok
    \/ CalledTool \in {"get_resource", "describe_resource"} /\ ~CallArg("name").ok
ClusterNotFoundFailure ==
    \/ CalledTool = "switch_cluster" /\ CallArg("cluster_name").ok
            /\ CallArg("cluster_name").v \notin Registered
    \/ CalledTool \in {"list_namespaces", "list_resources", "get_resource",
                       "describe_resource"}
            /\ NoSuchCluster(CallArg("cluster_name").v)
UnsupportedTypeFailure ==
    \/ CalledTool = "list_resources" /\ CallArg("resource_type").v \notin ListableTypes
    \/ CalledTool \in {"get_resource", "describe_resource"}
            /\ CallArg("resource_type").v \notin GettableTypes
ApiFailure == apiCalls # <<>> /\ apiEnv.failAt \in 1..Len(apiCalls)

ToolDomainFailure ==
    \/ UnknownToolFailure
    \/ MissingArgFailure
    \/ ClusterNotFoundFailure
    \/ UnsupportedTypeFailure
    \/ ApiFailure

\* C6: for tools/call every domain failure (unknown tool, missing required
\* argument, cluster not found, unsupported resource type, API failure)
\* gives a successful JSON-RPC response whose result has isError = true and
\* a text content item.
C6_ToolFailureIsResult ==
    (ToolCalled /\ ToolDomainFailure) =>
        /\ response.error = NoError
        /\ response.result.kind = "CallToolResult"
        /\ response.result.isError
        /\ response.result.text # <<>>

C6_Witness ==
    /\ ToolCalled
    /\ CalledTool = "list_resources"
    /\ ClusterNotFoundFailure
    /\ ~MissingArgFailure
    /\ ~UnsupportedTypeFailure
    /\ Registered # {}
    /\ response.result.isError

\* resources/read of a cluster document, once HandleReadResource ran: the
\* cluster named in the URI and the document asked for.
ReadCalled == Dispatched /\ request.method = "resources/read" /\ InTrace("HandleReadResource")
ReadsClusterDocument ==
    \E n \in ClusterNames \cup {UnknownName}, t \in {"info", "namespaces"} :
        request.params.uri = ClusterURI(n, <<t>>)
ReadCluster == request.params.uri[3]

\* A normal cluster-side outcome: the cluster asked for is not there, or the
\* Kubernetes API call failed.
ClusterSideFailure ==
    \/ ToolCalled /\ (ClusterNotFoundFailure \/ ApiFailure)
    \/ ReadCalled /\ ReadsClusterDocument /\ (NoSuchCluster(ReadCluster) \/ ApiFailure)

\* C7 as stated: a JSON-RPC error object is never returned for a normal
\* cluster-side outcome (unknown cluster name, failed Kubernetes API call),
\* on any method, resources/read included.
C7_NoErrorObjectForClusterOutcome ==
    ClusterSideFailure => response.error = NoError

\* C7 amended: on tools/call a cluster-side outcome is never a JSON-RPC error
\* object; on resources/read it is an InternalError (-32603) carrying the
\* handler's message; every error object is MethodNotFound for an unrouted
\* method, InvalidParams for params that do not decode, or InternalError for
\* a failed resources/read or prompts/get handler.
C7_ErrorObjectOnlyOffToolCalls ==
    Dispatched =>
        /\ (ToolCalled /\ ClusterSideFailure) => response.error = NoError
        /\ (ReadCalled /\ ClusterSideFailure) =>
                /\ response.error.code = -32603
                /\ response.error.data # <<>>
                /\ response.result = NoResult
        /\ (~response.isNil /\ response.error # NoError) =>
                \/ request.method \notin RoutedMethods /\ response.error.code = -32601
                \/ ~InTrace("ParamsDecoded") /\ response.error.code = -32602
                        /\ request.method \in {"initialize", "tools/call",
                                               "resources/read", "prompts/get"}
                \/ response.error.code = -32603
                        /\ (InTrace("HandleReadResource") \/ InTrace("HandleGetPrompt"))

C7_Witness ==
    /\ ReadCalled
    /\ ReadsClusterDocument
    /\ ReadCluster = UnknownName
    /\ Registered # {}
    /\ response.error.code = -32603

\* ------------------------------------------------------------------------
\* HTTP server: executeServer and the handler chain
\* ------------------------------------------------------------------------
\* executeServer: mcp.NewServer(authToken) with the non-empty --token.
InitHTTP ==
    /\ clusters = NewClusterManager.clusters
    /\ currentCluster = NewClusterManager.current
    /\ lastOp = OpRecord("new", "", Nil)
    /\ IdleStdio("http-start")
    /\ authToken \in ServerTokens
    /\ IdleCalls
    /\ httpReq = NoHTTPRequest
    /\ httpResp = NoHTTPResponse
    /\ access = AllIdle

\* executeServer: server.LoadKubeConfig(configPath); a failure is a warning.
HTTPLoadKubeConfig ==
    /\ pc = "http-start"
    /\ \E kubeconfig \in KubeConfigs :
        \E order \in Orders(DOMAIN kubeconfig.contexts) :
            LET r == LoadKubeConfigAndInitCluster(Reg, kubeconfig, order) IN
            /\ SetReg(r.reg)
            /\ lastOp' = OpRecord("LoadKubeConfig", "", r.err)
    /\ pc' = "http-serving"
    /\ UNCHANGED <<scanErr, line, request, response, sent, trace, apiCalls, apiEnv>>
    /\ UNCHANGED httpVars
    /\ UNCHANGED callVars

\* One HTTP request through CreateHTTPHandler: the middleware, and behind it
\* the tool handler the request calls.
HTTPServe ==
    /\ pc = "http-serving"
    /\ \E header \in AuthHeaders, tool \in HTTPTools, input \in HTTPInputs :
       \E env \in HTTPEnvs(input) :
        LET gate == AuthMiddleware(authToken, header)
            out == IF tool = "get_resource" THEN handleGetResourceHTTP(Reg, input, env)
                   ELSE handleGetResourceYAML(Reg, input, env)
        IN
        /\ httpReq' = HTTPRequest(header, tool, input)
        /\ httpResp' = IF gate.next THEN HTTPResponse(gate, tool, out)
                       ELSE HTTPResponse(gate, "", NoHTTPResponse.out)
        /\ apiCalls' = IF gate.next THEN out.calls ELSE <<>>
        /\ apiEnv' = env
    /\ pc' = "http-responded"
    /\ UNCHANGED <<clusters, currentCluster, lastOp, scanErr, line, request, response,
                   sent, trace, authToken, access>>
    /\ UNCHANGED callVars

\* The handler chain has returned; the server waits for the next request.
HTTPDone ==
    /\ pc = "http-responded"
    /\ pc' = "http-serving"
    /\ httpReq' = NoHTTPRequest
    /\ httpResp' = NoHTTPResponse
    /\ apiCalls' = <<>>
    /\ apiEnv' = QuietEnv
    /\ UNCHANGED <<clusters, currentCluster, lastOp, scanErr, line, request, response,
                   sent, trace, authToken, access>>
    /\ UNCHANGED callVars

NextHTTP ==
    \/ HTTPLoadKubeConfig
    \/ HTTPServe
    \/ HTTPDone

SpecHTTP == InitHTTP /\ [][NextHTTP]_vars

\* ------------------------------------------------------------------------
\* HTTP server: the goroutines that touch the Cluster Registry
\* ------------------------------------------------------------------------
AllHTTPTools == {"get_cluster_status", "list_pods", "list_services", "list_deployments",
                 "list_nodes", "get_resource", "get_resource_yaml", "get_events",
                 "get_pod_logs", "check_rbac_permission"}

\* Handlers that take the registry through a switch on their way.
RegistryCallsSwitching(tool) ==
    IF tool = "get_pod_logs" THEN {"SwitchCluster", "GetCurrentClient"}
    ELSE {"GetCurrentClient"}

\* The ClusterManager methods a tool's handler reaches through the bridge:
\* every handler passes "" as cluster name, get_pod_logs passes its input's
\* cluster_name.
RegistryCalls(tool) ==
    IF tool = "get_pod_logs" THEN {"GetClientForCluster", "GetCurrentClient"}
    ELSE {"GetCurrentClient"}

\* The methods that assign cm.clusters or cm.currentCluster; no method takes
\* a lock.
RegistryWriters == {"LoadKubeConfigAndInitCluster", "addContextCluster", "AddCluster",
                    "SwitchCluster"}
AccessKind(method) == IF method \in RegistryWriters THEN "writing" ELSE "reading"

\* The registry after a ClusterManager method, with GetClientForCluster
\* making the cluster it was asked for the current one.
RegistryAfterSelecting(reg, method, name) ==
    CASE method = "SwitchCluster" -> SwitchCluster(reg, name).reg
      [] method = "GetClientForCluster" -> SwitchCluster(reg, name).reg
      [] OTHER -> reg

\* The registry after a ClusterManager method reached from a handler:
\* GetCurrentClient and GetClientForCluster read cm.clusters and
\* cm.currentCluster and assign neither.
RegistryAfter(reg, method, name) ==
    CASE method = "SwitchCluster" -> SwitchCluster(reg, name).reg
      [] OTHER -> reg

\* executeServer enters server.LoadKubeConfig.
HTTPBeginLoad ==
    /\ pc = "http-start"
    /\ pc' = "http-loading"
    /\ access' = [access EXCEPT ![0] = AccessKind("LoadKubeConfigAndInitCluster")]
    /\ UNCHANGED <<clusters, currentCluster, lastOp, scanErr, line, request, response,
                   sent, trace, apiCalls, apiEnv, authToken, httpReq, httpResp>>
    /\ UNCHANGED callVars

\* server.LoadKubeConfig returns; executeServer goes on to CreateHTTPHandler
\* and ListenAndServe.
HTTPEndLoad ==
    /\ pc = "http-loading"
    /\ \E kubeconfig \in KubeConfigs :
        \E order \in Orders(DOMAIN kubeconfig.contexts) :
            LET r == LoadKubeConfigAndInitCluster(Reg, kubeconfig, order) IN
            /\ SetReg(r.reg)
            /\ lastOp' = OpRecord("LoadKubeConfig", "", r.err)
    /\ pc' = "http-serving"
    /\ access' = [access EXCEPT ![0] = "idle"]
    /\ UNCHANGED <<scanErr, line, request, response, sent, trace, apiCalls, apiEnv,
                   authToken, httpReq, httpResp>>
    /\ UNCHANGED callVars

\* A request goroutine passes the middleware and its tool handler starts on
\* the registry.
HTTPEnter(w) ==
    /\ pc = "http-serving"
    /\ access[w] = "idle"
    /\ \E header \in AuthHeaders, tool \in AllHTTPTools :
        /\ AuthMiddleware(authToken, header).next
        /\ \E method \in RegistryCalls(tool), name \in ClusterNames \cup {UnknownName} :
            /\ access' = [access EXCEPT ![w] = AccessKind(method)]
            /\ SetReg(RegistryAfter(Reg, method, name))
    /\ UNCHANGED <<lastOp, pc, scanErr, line, request, response,
                   sent, trace, apiCalls, apiEnv, authToken, httpReq, httpResp>>
    /\ UNCHANGED callVars

\* The registry method returns to the handler.
HTTPLeave(w) ==
    /\ access[w] # "idle"
    /\ access' = [access EXCEPT ![w] = "idle"]
    /\ UNCHANGED <<clusters, currentCluster, lastOp, pc, scanErr, line, request, response,
                   sent, trace, apiCalls, apiEnv, authToken, httpReq, httpResp>>
    /\ UNCHANGED callVars

NextHTTPAccess ==
    \/ HTTPBeginLoad
    \/ HTTPEndLoad
    \/ \E w \in Workers : HTTPEnter(w)
    \/ \E w \in Workers : HTTPLeave(w)

SpecHTTPAccess == InitHTTP /\ [][NextHTTPAccess]_vars

\* ------------------------------------------------------------------------
\* HTTP properties
\* ------------------------------------------------------------------------
HTTPServed == pc = "http-responded"

\* A member of a serialized document that shows a Secret payload.
ShowsPayload(member) ==
    member[1] \in {"data", "stringData"} /\ member[2][2] # "***REDACTED***"

\* C1: get_resource and get_resource_yaml, asked for a Secret, return the
\* object with its data and stringData payloads replaced by the redaction
\* marker; no payload reaches the output in any encoding.
C1_SecretPayloadRedacted ==
    (/\ HTTPServed
     /\ httpResp.gate.next
     /\ httpReq.input.resource_type \in {"secret", "secrets"}
     /\ httpResp.out.err = Nil) =>
        \A i \in 1..Len(httpResp.out.doc) : ~ShowsPayload(httpResp.out.doc[i])

\* C2: the middleware passes a request to the MCP handler exactly when its
\* Authorization header is "Bearer " followed by the configured token;
\* any other request gets 401 and reaches no tool handler.
C2_BearerGate ==
    HTTPServed =>
        /\ httpResp.gate.next <=>
                httpReq.header = <<"B", "e", "a", "r", "e", "r", " ">> \o authToken
        /\ httpResp.gate.next => httpResp.handler = httpReq.tool /\ httpResp.gate.status = 0
        /\ ~httpResp.gate.next =>
                /\ httpResp.gate.status = 401
                /\ httpResp.handler = ""
                /\ httpResp.out = NoHTTPResponse.out
                /\ apiCalls = <<>>

C2_Witness ==
    /\ HTTPServed
    /\ httpResp.gate.next
    /\ Len(authToken) = MaxTokenLen
    /\ apiCalls # <<>>

\* C12: under the HTTP transport no goroutine writes the registry's handle
\* map or current pointer while another goroutine writes or reads them.
C12_RegistryWritesExclusive ==
    \A p, q \in Procs : (p # q /\ access[p] = "writing") => access[q] = "idle"

C12_Witness ==
    /\ Registered # {}
    /\ \E p, q \in Workers : p # q /\ access[p] = "reading" /\ access[q] = "reading"

\* ------------------------------------------------------------------------
\* Request stages
\* ------------------------------------------------------------------------
StageRank(stage) ==
    CASE stage = "Received" -> 1
      [] stage = "ParamsDecoded" -> 2
      [] stage \in HandlerNames -> 3
      [] stage = "ResponseEmitted" -> 4
      [] OTHER -> 0

StagesInOrder(t) ==
    /\ \A i \in 1..Len(t) : StageRank(t[i]) # 0
    /\ \A i, j \in 1..Len(t) : i < j => StageRank(t[i]) < StageRank(t[j])
    /\ t # <<>> => t[1] = "Received"

\* The methods whose handler takes a parameter struct, and that struct.
DecodeTarget(method) ==
    CASE method = "initialize" -> "InitializeRequest"
      [] method = "tools/call" -> "CallToolRequest"
      [] method = "resources/read" -> "ReadResourceRequest"
      [] method = "prompts/get" -> "GetPromptRequest"
      [] OTHER -> ""

DecodeError(req) ==
    IF DecodeTarget(req.method) = "" THEN Nil
    ELSE unmarshalParams(req.params, DecodeTarget(req.method)).err

HandlerInTrace(t) == \E i \in 1..Len(t) : t[i] \in HandlerNames

StageStep ==
    /\ StagesInOrder(trace')
    /\ (HandlerInTrace(trace') /\ DecodeTarget(request'.method) # "") =>
            /\ DecodeError(request') = Nil
            /\ \E i \in 1..Len(trace') : trace'[i] = "ParamsDecoded"
    /\ (pc = "dispatch" /\ pc' # "dispatch" /\ DecodeError(request) # Nil) =>
            /\ ~response'.isNil
            /\ response'.id = request.id
            /\ response'.result = NoResult
            /\ response'.error.code = -32602
            /\ response'.error.data = DecodeError(request)
            /\ ~HandlerInTrace(trace')
            /\ apiCalls' = <<>>
            /\ clusters' = clusters
            /\ currentCluster' = currentCluster
    /\ (pc = "send" /\ pc' # "send") =>
            \/ trace' = trace \o <<"ResponseEmitted">> /\ sent' # <<>>
            \/ trace' = trace /\ sent' = <<>>

\* C17: the stages of a request occur in the order Received, ParamsDecoded,
\* HandlerInvoked, ResponseEmitted; a handler that takes parameters is
\* invoked only after they were decoded without error; and when decoding
\* fails the response is an error with code -32602 whose data is the decode
\* error, and the handler is not invoked.
C17_StagesInOrder == [][StageStep]_vars

C17_Witness ==
    /\ pc = "iterated"
    /\ request.method = "tools/call"
    /\ DecodeError(request) # Nil
    /\ trace = <<"Received", "ResponseEmitted">>
    /\ Len(sent) = 1
    /\ sent[1].error.code = -32602

\* ------------------------------------------------------------------------
\* End of the serving loop
\* ------------------------------------------------------------------------
RunReturned == pc = "done"

EndOfStreamStep ==
    \* end of stream read by a healthy scanner stops the loop, without error
    /\ (pc = "receive" /\ pc' # "receive" /\ ~scanErr /\ line'.kind = "eof") =>
            /\ RunReturned'
            /\ callResult' = Returned(Nil)
    \* the loop stops in no other way, and with no request in hand
    /\ (RunReturned' /\ ~RunReturned) =>
            /\ pc = "receive" /\ line'.kind = "eof"
            /\ request = NoRequest /\ trace = <<>>
    \* an envelope that was received is dispatched before anything else
    /\ (pc = "receive" /\ pc' # "receive" /\ line'.kind = "json") =>
            pc' = "dispatch" /\ request'.method = line'.method
    /\ (pc = "dispatch" /\ pc' # "dispatch") =>
            /\ pc' \in {"send", "iterated"}
            /\ \E env \in EnvsFor(request) :
                    response' = Dispatch(request, Reg, env).response
    \* the next receive comes only after the iteration has ended
    /\ (pc' = "receive" /\ pc # "receive") => pc \in {"start", "iterated"}

\* C18: at end of stream Receive yields io.EOF, the serving loop stops and
\* Run returns nil; every request received before that was dispatched before
\* the loop stopped.
C18_EndOfStreamStopsLoop == [][EndOfStreamStep]_vars

C18_Witness ==
    /\ RunReturned
    /\ callResult = Returned(Nil)
    /\ line.kind = "eof"
    /\ lastOp.op = "LoadKubeConfig"
    /\ currentCluster # "" /\ currentCluster \in DOMAIN clusters

\* The scanner has reported a read failure other than end of input.
ReadFailed == scanErr

\* C19: a read failure of the transport other than end of stream ends the
\* serving loop: once the scanner has failed, Run returns and the loop does
\* not go back to receiving.
C19_ReadFailureStopsLoop == [][ReadFailed => pc' # "receive"]_vars

\* The loop body has run to its end for a line that was not an envelope.
MalformedServed == pc = "iterated" /\ line.kind = "badjson"

\* C20: a line that is not a well-formed envelope is answered with an error
\* response of code -32700 under its id when the id can be recovered, and is
\* dropped without a response otherwise; either way the loop goes on.
C20_MalformedLineAnswered ==
    MalformedServed =>
        IF line.id # IdAbsent
        THEN /\ Len(sent) = 1
             /\ sent[1].id = line.id
             /\ sent[1].error.code = ParseError
        ELSE sent = <<>>

C24_ReadQueriesNamedCluster ==
    (ReadCalled /\ ReadsClusterDocument) =>
        /\ \A i \in 1..Len(apiCalls) :
                /\ ReadCluster \in Registered
                /\ apiCalls[i].client = clusters[ReadCluster]
        /\ ReadCluster \notin Registered =>
                apiCalls = <<>> /\ response.error # NoError

(***************************************************************************)
(* Pod status summary (internal/k8s/resources.go, getPodStatus).          *)
(* A pod carries what the function reads: the deletion timestamp, the     *)
(* pod-level reason, the init-container and container statuses in         *)
(* declared order, and the phase.  A container state carries a waiting    *)
(* part, a terminated part or neither (running): the API server sets at   *)
(* most one member of a ContainerState.                                    *)
(***************************************************************************)
MaxContainers == 2

NoPart == [set |-> FALSE, reason |-> "", exitCode |-> 0]

WaitingParts == {[set |-> TRUE, reason |-> r, exitCode |-> 0] :
                    r \in {"", "PodInitializing", "ImagePullBackOff"}}

TerminatedParts ==
    {[set |-> TRUE, reason |-> "Completed", exitCode |-> 0],
     [set |-> TRUE, reason |-> "", exitCode |-> 1],
     [set |-> TRUE, reason |-> "OOMKilled", exitCode |-> 1]}

ContainerStatuses ==
    {[waiting |-> NoPart, terminated |-> NoPart]}
    \cup {[waiting |-> w, terminated |-> NoPart] : w \in WaitingParts}
    \cup {[waiting |-> NoPart, terminated |-> t] : t \in TerminatedParts}

StatusLists == UNION {[1..n -> ContainerStatuses] : n \in 0..MaxContainers}

Pods ==
    [deleted : BOOLEAN, reason : {"", "Evicted"},
     initContainerStatuses : StatusLists, containerStatuses : StatusLists,
     phase : {"Pending", "Running"}]

\* One init container's verdict without the exemption of the
\* "PodInitializing" waiting reason.
initContainerStatusAnyWaiting(cs) ==
    IF cs.terminated.set /\ cs.terminated.exitCode # 0
    THEN IF cs.terminated.reason # ""
         THEN "Init:" \o cs.terminated.reason
         ELSE "Init:Error"
    ELSE IF cs.waiting.set /\ cs.waiting.reason # ""
         THEN "Init:" \o cs.waiting.reason
         ELSE ""

\* One init container's verdict, "" when the loop moves on to the next one.
initContainerStatus(cs) ==
    IF cs.terminated.set /\ cs.terminated.exitCode # 0
    THEN IF cs.terminated.reason # ""
         THEN "Init:" \o cs.terminated.reason
         ELSE "Init:Error"
    ELSE IF cs.waiting.set /\ cs.waiting.reason # ""
                           /\ cs.waiting.reason # "PodInitializing"
         THEN "Init:" \o cs.waiting.reason
         ELSE ""

\* One main container's verdict, "" when the loop moves on to the next one.
containerStatus(cs) ==
    IF cs.waiting.set /\ cs.waiting.reason # ""
    THEN cs.waiting.reason
    ELSE IF cs.terminated.set /\ cs.terminated.exitCode # 0
         THEN IF cs.terminated.reason # "" THEN cs.terminated.reason ELSE "Error"
         ELSE ""

\* The "for _, cs := range ..." loops: the first container with a verdict
\* returns, an exhausted list falls through.
RECURSIVE initLoop(_, _)
initLoop(statuses, i) ==
    IF i > Len(statuses) THEN ""
    ELSE IF initContainerStatus(statuses[i]) # ""
         THEN initContainerStatus(statuses[i])
         ELSE initLoop(statuses, i + 1)

RECURSIVE containerLoop(_, _)
containerLoop(statuses, i) ==
    IF i > Len(statuses) THEN ""
    ELSE IF containerStatus(statuses[i]) # ""
         THEN containerStatus(statuses[i])
         ELSE containerLoop(statuses, i + 1)

\* getPodStatus with the pod-level reason tested ahead of the deletion
\* timestamp.
getPodStatusReasonFirst(pod) ==
    IF pod.reason # "" THEN pod.reason
    ELSE IF pod.deleted THEN "Terminating"
    ELSE IF initLoop(pod.initContainerStatuses, 1) # ""
         THEN initLoop(pod.initContainerStatuses, 1)
    ELSE IF containerLoop(pod.containerStatuses, 1) # ""
         THEN containerLoop(pod.containerStatuses, 1)
    ELSE pod.phase

getPodStatus(pod) ==
    IF pod.deleted THEN "Terminating"
    ELSE IF pod.reason # "" THEN pod.reason
    ELSE IF initLoop(pod.initContainerStatuses, 1) # ""
         THEN initLoop(pod.initContainerStatuses, 1)
    ELSE IF containerLoop(pod.containerStatuses, 1) # ""
         THEN containerLoop(pod.containerStatuses, 1)
    ELSE pod.phase

IdleServer ==
    /\ clusters = NewClusterManager.clusters
    /\ currentCluster = NewClusterManager.current
    /\ lastOp = OpRecord("new", "", Nil)
    /\ pc = "fresh" /\ scanErr = FALSE /\ line = NoLine /\ request = NoRequest
    /\ response = NilResponse /\ sent = <<>> /\ trace = <<>> /\ apiCalls = <<>>
    /\ apiEnv = QuietEnv
    /\ authToken = <<>> /\ httpReq = NoHTTPRequest /\ httpResp = NoHTTPResponse
    /\ access = AllIdle

InitPodStatus ==
    /\ IdleServer
    /\ callArgs \in Pods
    /\ callResult = NotCalled

CallGetPodStatus ==
    /\ callArgs \in Pods
    /\ callResult = NotCalled
    /\ callResult' = Returned(getPodStatus(callArgs))
    /\ UNCHANGED <<regVars, apiCalls, libVars, httpVars, callArgs>>

NextPodStatus == CallGetPodStatus

SpecPodStatus == InitPodStatus /\ [][NextPodStatus]_vars


(***************************************************************************)
(* Pod status properties                                                   *)
(***************************************************************************)
\* What each precedence step says about one container, "" for no match.
InitStepVerdict(cs) ==
    CASE cs.terminated.set /\ cs.terminated.exitCode # 0 /\ cs.terminated.reason # ""
            -> "Init:" \o cs.terminated.reason
      [] cs.terminated.set /\ cs.terminated.exitCode # 0 /\ cs.terminated.reason = ""
            -> "Init:Error"
      [] ~(cs.terminated.set /\ cs.terminated.exitCode # 0)
            /\ cs.waiting.set /\ cs.waiting.reason \notin {"", "PodInitializing"}
            -> "Init:" \o cs.waiting.reason
      [] OTHER -> ""

MainStepVerdict(cs) ==
    CASE cs.waiting.set /\ cs.waiting.reason # "" -> cs.waiting.reason
      [] ~(cs.waiting.set /\ cs.waiting.reason # "")
            /\ cs.terminated.set /\ cs.terminated.exitCode # 0
            -> (IF cs.terminated.reason # "" THEN cs.terminated.reason ELSE "Error")
      [] OTHER -> ""

\* The verdict of the first container, in declared order, that has one.
FirstVerdict(statuses, Verdict(_)) ==
    LET hits == {i \in 1..Len(statuses) : Verdict(statuses[i]) # ""} IN
        IF hits = {} THEN ""
        ELSE Verdict(statuses[CHOOSE i \in hits : \A j \in hits : i <= j])

PrecedenceSteps(pod) ==
    <<IF pod.deleted THEN "Terminating" ELSE "",
      pod.reason,
      FirstVerdict(pod.initContainerStatuses, InitStepVerdict),
      FirstVerdict(pod.containerStatuses, MainStepVerdict),
      pod.phase>>

PodStatusCalled == callArgs \in Pods /\ callResult.called

\* C13: the status summary of a pod is the outcome of the first matching
\* step of a five-step precedence: deletion marker ("Terminating"), the
\* non-empty pod-level reason, the first init container in declared order
\* with a failure ("Init:" plus reason, or "Init:Error"), the first main
\* container in declared order that is waiting with a reason or else
\* terminated with a non-zero exit (reason, or "Error"), and the phase.
C13_StatusPrecedence ==
    PodStatusCalled =>
        LET steps == PrecedenceSteps(callArgs)
            first == CHOOSE i \in 1..5 :
                        /\ steps[i] # ""
                        /\ \A j \in 1..(i - 1) : steps[j] = ""
        IN callResult.value = steps[first]

C13_Witness ==
    /\ PodStatusCalled
    /\ ~callArgs.deleted /\ callArgs.reason = ""
    /\ Len(callArgs.initContainerStatuses) = 2
    /\ callArgs.initContainerStatuses[1].waiting.reason = "PodInitializing"
    /\ callArgs.initContainerStatuses[2].terminated.exitCode = 1
    /\ callArgs.initContainerStatuses[2].terminated.reason = ""
    /\ Len(callArgs.containerStatuses) = 2
    /\ callArgs.containerStatuses[1].waiting.reason = "ImagePullBackOff"
    /\ callResult.value = "Init:Error"

\* C14: a pod that carries a deletion timestamp is summarised as
\* "Terminating", whatever its reason, container states and phase.
C14_DeletedIsTerminating ==
    (PodStatusCalled /\ callArgs.deleted) => callResult.value = "Terminating"

C14_Witness ==
    /\ PodStatusCalled
    /\ callArgs.deleted /\ callArgs.reason = "Evicted"
    /\ Len(callArgs.initContainerStatuses) > 0
    /\ callArgs.initContainerStatuses[1].terminated.exitCode = 1
    /\ Len(callArgs.containerStatuses) > 0
    /\ callArgs.containerStatuses[1].waiting.reason = "ImagePullBackOff"
    /\ callResult.value = "Terminating"


WaitingReasons(statuses) ==
    {statuses[i].waiting.reason : i \in {j \in 1..Len(statuses) :
        statuses[j].waiting.set /\ statuses[j].waiting.reason # ""}}

\* C30: for a pod that is not being deleted, has no pod-level reason and no
\* init-container failure, a main container waiting with a non-empty reason
\* has priority over one terminated with an error: if any main container is
\* waiting with a reason, the status is such a waiting reason, and not a
\* terminated container's reason or "Error".
C30_WaitingBeforeTerminated ==
    (/\ PodStatusCalled
     /\ ~callArgs.deleted
     /\ callArgs.reason = ""
     /\ initLoop(callArgs.initContainerStatuses, 1) = ""
     /\ WaitingReasons(callArgs.containerStatuses) # {})
        => callResult.value \in WaitingReasons(callArgs.containerStatuses)


(***************************************************************************)
(* Pod logs (internal/k8s/resources.go GetPodLogs, and the get_pod_logs    *)
(* tool handler of the HTTP server).  A log text is the number of stream   *)
(* bytes it starts with, in stream order, and what was appended to them.   *)
(***************************************************************************)
maxBytes == 1048576
DefaultTailLines == 100
TruncationMarker == "\n\n[Logs truncated: exceeded 1MB limit]"

ContainerPool == <<"app", "sidecar", "proxy", "agent">>
DeclaredContainers ==
    {SubSeq(ContainerPool, 1, n) : n \in 0..MaxContainers}

NoTailLines == [set |-> FALSE, value |-> 0]
TailLines(n) == [set |-> TRUE, value |-> n]

\* What the API server and the log stream do during one call.
LogEnvs ==
    [getFails : BOOLEAN, containers : DeclaredContainers,
     streamFails : BOOLEAN, readFails : BOOLEAN,
     streamLen : {0, 1, maxBytes - 1, maxBytes, maxBytes + 1, 2 * maxBytes},
     chunk : {maxBytes \div 4, 2 * maxBytes}]

PodLogsInputs ==
    [containerName : {"", "app", "sidecar"}, tailLines : {NoTailLines, TailLines(5)},
     previous : BOOLEAN, clusterName : {"", "b", UnknownName}]

LogText(bytes, appended) == [bytes |-> bytes, appended |-> appended]
NoLogs == LogText(0, "")

LogOut(logs, err, opened, read, got) ==
    [logs |-> logs, err |-> err, opened |-> opened, read |-> read, got |-> got]

NoStream == <<>>
LogStream(client, container, tailLines, previous) ==
    [client |-> client, container |-> container,
     tailLines |-> tailLines, previous |-> previous]

Least(a, b) == IF a <= b THEN a ELSE b

\* io.ReadAll(io.LimitReader(logStream, maxBytes)): every Read asks the
\* stream for at most the n bytes still allowed and stops at n = 0 or at the
\* end of the stream; acc is the number of bytes taken from the stream.
RECURSIVE ReadAllLimited(_, _, _, _)
ReadAllLimited(left, n, chunk, acc) ==
    IF n <= 0 \/ left = 0 THEN acc
    ELSE LET k == Least(chunk, Least(n, left)) IN
         ReadAllLimited(left - k, n - k, chunk, acc + k)

\* The read with the limit set to the whole length of the stream.
ReadLogsUnlimited(env) == ReadAllLimited(env.streamLen, env.streamLen, env.chunk, 0)

\* limitedReader := io.LimitReader(logStream, maxBytes); io.ReadAll(limitedReader)
ReadLogs(env) == ReadAllLimited(env.streamLen, maxBytes, env.chunk, 0)

\* GetPodLogs with the pod looked up for its first container even when a
\* container was named.
GetPodLogsFirstContainer(reg, containerName, tailLines, previous, clusterName, env) ==
    LET c == ResolveClient(reg, clusterName)
        lines == IF tailLines.set THEN tailLines.value ELSE DefaultTailLines
    IN
    IF c.err # Nil THEN LogOut(NoLogs, c.err, NoStream, 0, FALSE)
    ELSE IF env.getFails
    THEN LogOut(NoLogs, Wrap("failed to get pod", ApiError), NoStream, 0, TRUE)
    ELSE IF Len(env.containers) = 0
    THEN LogOut(NoLogs, <<"no containers found in pod">>, NoStream, 0, TRUE)
    ELSE LET stream == LogStream(c.client, env.containers[1], lines, previous) IN
    IF env.streamFails
    THEN LogOut(NoLogs, Wrap("failed to get log stream", ApiError), NoStream, 0, TRUE)
    ELSE LET read == ReadLogs(env) IN
    IF env.readFails
    THEN LogOut(NoLogs, Wrap("failed to read logs", ApiError), stream, read, TRUE)
    ELSE LogOut(LogText(read, IF read >= maxBytes THEN TruncationMarker ELSE ""),
                Nil, stream, read, TRUE)

GetPodLogs(reg, containerName, tailLines, previous, clusterName, env) ==
    LET c == ResolveClient(reg, clusterName)
        lines == IF tailLines.set THEN tailLines.value ELSE DefaultTailLines
        lookup == containerName = ""
    IN
    IF c.err # Nil THEN LogOut(NoLogs, c.err, NoStream, 0, FALSE)
    ELSE IF lookup /\ env.getFails
    THEN LogOut(NoLogs, Wrap("failed to get pod", ApiError), NoStream, 0, TRUE)
    ELSE IF lookup /\ Len(env.containers) = 0
    THEN LogOut(NoLogs, <<"no containers found in pod">>, NoStream, 0, TRUE)
    ELSE LET container == IF lookup THEN env.containers[1] ELSE containerName
             stream == LogStream(c.client, container, lines, previous)
         IN
    IF env.streamFails
    THEN LogOut(NoLogs, Wrap("failed to get log stream", ApiError), NoStream, 0, lookup)
    ELSE LET read == ReadLogs(env) IN
    IF env.readFails
    THEN LogOut(NoLogs, Wrap("failed to read logs", ApiError), stream, read, lookup)
    ELSE LogOut(LogText(read, IF read >= maxBytes THEN TruncationMarker ELSE ""),
                Nil, stream, read, lookup)

\* The tool handler: tail_lines defaults to 100, every other input is passed
\* through, a failure is wrapped.
handleGetPodLogs(reg, input, env) ==
    LET tailLines == IF input.tailLines.set THEN input.tailLines
                     ELSE TailLines(DefaultTailLines)
        r == GetPodLogs(reg, input.containerName, tailLines, input.previous,
                        input.clusterName, env)
    IN IF r.err # Nil
       THEN [r EXCEPT !.err = Wrap("failed to get pod logs", r.err)]
       ELSE r

\* The registry the HTTP server serves from: loaded once, clusters a and b.
TwoClusters ==
    LET one == AddCluster(NewClusterManager, "a", GoodConfig \o "-a").reg
    IN AddCluster(one, "b", GoodConfig \o "-b").reg

InitPodLogs ==
    /\ IdleServer
    /\ callArgs \in [input : PodLogsInputs, env : LogEnvs,
                     reg : {TwoClusters, SwitchCluster(TwoClusters, "b").reg}]
    /\ callResult = NotCalled

CallGetPodLogs ==
    /\ callArgs # NoCall
    /\ callResult = NotCalled
    /\ callResult' = Returned(handleGetPodLogs(callArgs.reg, callArgs.input, callArgs.env))
    /\ UNCHANGED <<regVars, apiCalls, libVars, httpVars, callArgs>>

NextPodLogs == CallGetPodLogs

SpecPodLogs == InitPodLogs /\ [][NextPodLogs]_vars

PodLogsCalled ==
    /\ callArgs # NoCall /\ DOMAIN callArgs = {"input", "env", "reg"}
    /\ callResult.called

\* C15: when the log stream holds more than the 1 MiB ceiling, the text
\* returned is exactly the first 1 MiB of the stream followed by the
\* truncation marker, appended once; and whatever the stream holds, no more
\* than 1 MiB is read from it.
C15_TruncatedAtCeiling ==
    PodLogsCalled =>
        /\ callResult.value.read <= maxBytes
        /\ (callResult.value.err = Nil /\ callArgs.env.streamLen > maxBytes) =>
                callResult.value.logs = LogText(maxBytes, TruncationMarker)

C15_Witness ==
    /\ PodLogsCalled
    /\ callArgs.env.streamLen = 2 * maxBytes
    /\ callArgs.env.chunk < maxBytes
    /\ callResult.value.err = Nil
    /\ callResult.value.read = maxBytes
    /\ callResult.value.logs = LogText(maxBytes, TruncationMarker)

\* C16: the log stream is opened on the container named in the call when
\* one is named, otherwise on the first container the pod declares; with no
\* name and no declared container the call fails and opens no stream.
C16_ContainerResolution ==
    PodLogsCalled =>
        LET inp == callArgs.input
            env == callArgs.env
            out == callResult.value
        IN
        /\ (out.opened # NoStream /\ inp.containerName # "") =>
                out.opened.container = inp.containerName
        /\ (out.opened # NoStream /\ inp.containerName = "") =>
                /\ env.containers # <<>>
                /\ out.opened.container = Head(env.containers)
        /\ (inp.containerName = "" /\ env.containers = <<>>) =>
                out.err # Nil /\ out.opened = NoStream
        /\ (out.err = Nil) => out.opened # NoStream

C16_Witness ==
    /\ PodLogsCalled
    /\ callArgs.input.containerName = ""
    /\ callArgs.env.containers = <<"app", "sidecar">>
    /\ callResult.value.err = Nil
    /\ callResult.value.got
    /\ callResult.value.opened.container = "app"


\* C28: the truncation marker is appended only when log bytes were dropped:
\* a stream of at most 1 MiB, one of exactly 1,048,576 bytes included, is
\* returned whole and without the marker.
C28_MarkerOnlyWhenDropped ==
    (PodLogsCalled /\ callResult.value.err = Nil
                   /\ callArgs.env.streamLen <= maxBytes) =>
        callResult.value.logs = LogText(callArgs.env.streamLen, "")

(***************************************************************************)
(* RBAC check (internal/k8s/resources.go CheckRBACPermission, and the      *)
(* check_rbac_permission tool handler of the HTTP server).                 *)
(***************************************************************************)
RBACInputs ==
    [verb : {"get", "delete"}, resource : {"pods", "secrets"},
     namespace : {"", "default"}]

\* What the API server does with the access review: the call fails, or it
\* answers with Status.Allowed.
RBACEnvs == [fails : BOOLEAN, allowed : BOOLEAN]

AccessReview(client, verb, resource, namespace) ==
    [client |-> client, call |-> "selfsubjectaccessreviews.create",
     verb |-> verb, resource |-> resource, namespace |-> namespace]

RBACOut(allowed, reason, err, calls) ==
    [allowed |-> allowed, reason |-> reason, err |-> err, calls |-> calls]

\* CheckRBACPermission answering "not allowed" when the review call fails.
CheckRBACPermissionDenying(reg, verb, resource, namespace, env) ==
    LET c == GetCurrentClient(reg) IN
    IF c.err # Nil THEN [allowed |-> FALSE, err |-> c.err, calls |-> <<>>]
    ELSE [allowed |-> ~env.fails /\ env.allowed, err |-> Nil,
          calls |-> <<AccessReview(c.client, verb, resource, namespace)>>]

CheckRBACPermission(reg, verb, resource, namespace, env) ==
    LET c == GetCurrentClient(reg) IN
    IF c.err # Nil THEN [allowed |-> FALSE, err |-> c.err, calls |-> <<>>]
    ELSE IF env.fails
    THEN [allowed |-> FALSE, err |-> Wrap("failed to check RBAC permission", ApiError),
          calls |-> <<AccessReview(c.client, verb, resource, namespace)>>]
    ELSE [allowed |-> env.allowed, err |-> Nil,
          calls |-> <<AccessReview(c.client, verb, resource, namespace)>>]

handleCheckRBACPermission(reg, input, env) ==
    LET r == CheckRBACPermission(reg, input.verb, input.resource, input.namespace, env) IN
    IF r.err # Nil
    THEN RBACOut(FALSE, "", Wrap("failed to check RBAC permission", r.err), r.calls)
    ELSE RBACOut(r.allowed,
                 IF r.allowed THEN "Permission granted" ELSE "Permission denied",
                 Nil, r.calls)

\* Registries the server can be serving from: nothing loaded (a failed
\* load), or clusters a and b with either of them current.
ServingRegistries ==
    {NewClusterManager, TwoClusters, SwitchCluster(TwoClusters, "b").reg}

InitRBAC ==
    /\ IdleServer
    /\ callArgs \in [input : RBACInputs, env : RBACEnvs, reg : ServingRegistries]
    /\ callResult = NotCalled

CallCheckRBACPermission ==
    /\ callArgs # NoCall
    /\ callResult = NotCalled
    /\ callResult' = Returned(handleCheckRBACPermission(callArgs.reg, callArgs.input,
                                                        callArgs.env))
    /\ UNCHANGED <<regVars, apiCalls, libVars, httpVars, callArgs>>

NextRBAC == CallCheckRBACPermission

SpecRBAC == InitRBAC /\ [][NextRBAC]_vars

RBACCalled == callArgs # NoCall /\ callResult.called

\* C21: check_rbac_permission submits its review to the cluster that is
\* current when it is called and to no other; without an error its reason is
\* "Permission granted" exactly when allowed is true and "Permission denied"
\* exactly when allowed is false; a failed review call gives an error and
\* never a denied result.
C21_RBACAgainstCurrent ==
    RBACCalled =>
        LET reg == callArgs.reg
            env == callArgs.env
            out == callResult.value
        IN
        /\ \A i \in 1..Len(out.calls) :
                /\ reg.current \in DOMAIN reg.clusters
                /\ out.calls[i].client = reg.clusters[reg.current]
        /\ out.err = Nil =>
                /\ Len(out.calls) = 1
                /\ out.allowed = env.allowed
                /\ (out.reason = "Permission granted") <=> out.allowed
                /\ (out.reason = "Permission denied") <=> ~out.allowed
        /\ (env.fails \/ reg.current \notin DOMAIN reg.clusters) =>
                /\ out.err # Nil
                /\ out.reason # "Permission denied"

C21_Witness ==
    /\ RBACCalled
    /\ callArgs.reg.current = "b"
    /\ ~callArgs.env.fails /\ ~callArgs.env.allowed
    /\ callResult.value.err = Nil
    /\ callResult.value.reason = "Permission denied"
    /\ callResult.value.calls[1].client = callArgs.reg.clusters["b"]
    /\ callArgs.reg.clusters["a"] # callArgs.reg.clusters["b"]


(***************************************************************************)
(* Logger output paths (pkg/logger/flags.go AdjustOutputPaths).  A Config  *)
(* here is what NewDefaultConfig builds and the command-line flags or the  *)
(* caller then change: level, format, the two path lists and the file name *)
(* of the rotation settings.                                               *)
(***************************************************************************)
LogFiles == {"logs/app.log", "/tmp/test.log", "stdout", ""}

LogConfig(level, format, outputPaths, errorOutputPaths, filename) ==
    [Level |-> level, Format |-> format, OutputPaths |-> outputPaths,
     ErrorOutputPaths |-> errorOutputPaths, Filename |-> filename]

NewDefaultConfig == LogConfig("info", "text", <<"stdout">>, <<"stderr">>, "logs/app.log")

LogConfigs ==
    {LogConfig(l, f, o, e, n) :
        l \in {"info", "debug"}, f \in {"text", "json"},
        o \in {<<"stdout">>, <<"stdout", "logs/app.log">>, <<"logs/app.log">>},
        e \in {<<"stderr">>, <<"stderr", "logs/app.log">>},
        n \in LogFiles}

\* AdjustOutputPaths adding the file to the paths the Config already has.
AdjustOutputPathsAppending(cfg, logToFile) ==
    IF logToFile
    THEN [cfg EXCEPT !.OutputPaths = cfg.OutputPaths \o <<cfg.Filename>>,
                     !.ErrorOutputPaths = cfg.ErrorOutputPaths \o <<cfg.Filename>>]
    ELSE [cfg EXCEPT !.OutputPaths = <<"stdout">>,
                     !.ErrorOutputPaths = <<"stderr">>]

AdjustOutputPaths(cfg, logToFile) ==
    IF logToFile
    THEN [cfg EXCEPT !.OutputPaths = <<"stdout", cfg.Filename>>,
                     !.ErrorOutputPaths = <<"stderr", cfg.Filename>>]
    ELSE [cfg EXCEPT !.OutputPaths = <<"stdout">>,
                     !.ErrorOutputPaths = <<"stderr">>]

\* callResult holds the Config the calls work on, callArgs the flag of the
\* last call.
InitLogger ==
    /\ IdleServer
    /\ callArgs = NoCall
    /\ callResult \in {[called |-> FALSE, value |-> cfg] : cfg \in LogConfigs}

CallAdjustOutputPaths ==
    \E logToFile \in BOOLEAN :
        /\ callArgs' = [logToFile |-> logToFile]
        /\ callResult' = Returned(AdjustOutputPaths(callResult.value, logToFile))
        /\ UNCHANGED <<regVars, apiCalls, libVars, httpVars>>

NextLogger == CallAdjustOutputPaths

SpecLogger == InitLogger /\ [][NextLogger]_vars

PathsAdjusted == callResult.called /\ callArgs # NoCall

\* C23: after any sequence of AdjustOutputPaths calls the output paths are
\* those of the last call: exactly stdout when its flag was false, exactly
\* stdout and the configured log file when it was true; a further call with
\* the same flag changes nothing.
C23_PathsFollowLastCall ==
    PathsAdjusted =>
        LET cfg == callResult.value IN
        /\ callArgs.logToFile => cfg.OutputPaths = <<"stdout", cfg.Filename>>
        /\ ~callArgs.logToFile => cfg.OutputPaths = <<"stdout">>
        /\ AdjustOutputPaths(cfg, callArgs.logToFile) = cfg

C23_Witness ==
    /\ PathsAdjusted
    /\ callArgs.logToFile
    /\ callResult.value.Filename = "/tmp/test.log"
    /\ callResult.value.OutputPaths = <<"stdout", "/tmp/test.log">>
    /\ callResult.value.Level = "debug"


(***************************************************************************)
(* Registry frame of the HTTP server                                       *)
(***************************************************************************)
HTTPServing == pc = "http-serving"

\* C25: once kubeconfig loading has returned and the HTTP handler is
\* serving, no tool call, in any order and any interleaving of request
\* goroutines, changes the registry's handle map or its current cluster.
C25_ToolsLeaveRegistryAlone ==
    [][HTTPServing => (clusters' = clusters /\ currentCluster' = currentCluster)]_vars

C25_Witness ==
    /\ HTTPServing
    /\ Cardinality(Registered) >= 2
    /\ currentCluster \in Registered
    /\ \E w \in Workers : access[w] = "reading"
    /\ \E w \in Workers : access[w] = "idle"


(***************************************************************************)
(* Kubeconfig loading on its own: a kubeconfig and the order in which the  *)
(* Go runtime happens to range over config.Contexts, a map.                *)
(***************************************************************************)
InitLoad ==
    /\ IdleServer
    /\ callArgs \in UNION {{[kubeconfig |-> k, order |-> o] :
                                o \in Orders(DOMAIN k.contexts)} : k \in KubeConfigs}
    /\ callResult = NotCalled

CallLoadKubeConfigAndInitCluster ==
    /\ callArgs # NoCall
    /\ callResult = NotCalled
    /\ callResult' = Returned(LoadKubeConfigAndInitCluster(NewClusterManager,
                                  callArgs.kubeconfig, callArgs.order))
    /\ UNCHANGED <<regVars, apiCalls, libVars, httpVars, callArgs>>

NextLoad == CallLoadKubeConfigAndInitCluster

SpecLoad == InitLoad /\ [][NextLoad]_vars

LoadCalled == callArgs # NoCall /\ callResult.called

\* C27: loading the same kubeconfig always gives the same registry: the set
\* of registered names and the current cluster are determined by the
\* kubeconfig alone, so any other run over the same kubeconfig agrees.
C27_LoadDeterministic ==
    LoadCalled =>
        \A other \in Orders(DOMAIN callArgs.kubeconfig.contexts) :
            LET again == LoadKubeConfigAndInitCluster(NewClusterManager,
                                                      callArgs.kubeconfig, other).reg
            IN /\ DOMAIN again.clusters = DOMAIN callResult.value.reg.clusters
               /\ again.current = callResult.value.reg.current


(***************************************************************************)
(* MCP client (pkg/mcpclient): NewClient with its options, and the         *)
(* transport that decorates every HTTP request.                            *)
(***************************************************************************)
MaxOptions == 2

ClientTokens == {"", "t1", "t2"}
HeaderKeys == {"Authorization", "authorization", "X-Trace"}
HeaderValues == {"v", "Bearer t2"}

\* An option list: WithHeader(key, value), ...
HeaderOptions == [key : HeaderKeys, value : HeaderValues]
OptionLists == UNION {[1..n -> HeaderOptions] : n \in 0..MaxOptions}

\* textproto.CanonicalMIMEHeaderKey, which http.Header.Set applies to the key.
CanonicalKey(key) == IF key = "authorization" THEN "Authorization" ELSE key

\* WithHeader: c.customHeaders[key] = value, applied in the order given.
RECURSIVE ApplyOptions(_, _)
ApplyOptions(customHeaders, opts) ==
    IF opts = <<>> THEN customHeaders
    ELSE ApplyOptions(MapPut(customHeaders, Head(opts).key, Head(opts).value), Tail(opts))

NewClient(token, opts) ==
    IF token = ""
    THEN [client |-> [token |-> "", customHeaders |-> EmptyMap],
          err |-> <<"AuthToken is required">>]
    ELSE [client |-> [token |-> token, customHeaders |-> ApplyOptions(EmptyMap, opts)],
          err |-> Nil]

\* req.Header.Set for each custom header, in the order the map is ranged over.
RECURSIVE SetHeaders(_, _, _)
SetHeaders(header, customHeaders, order) ==
    IF order = <<>> THEN header
    ELSE SetHeaders(MapPut(header, CanonicalKey(Head(order)), customHeaders[Head(order)]),
                    customHeaders, Tail(order))

\* tokenAuthTransport.RoundTrip: the request's header as it goes out.
RoundTrip(client, order) ==
    SetHeaders(MapPut(EmptyMap, "Authorization", "Bearer " \o client.token),
               client.customHeaders, order)

InitClient ==
    /\ IdleServer
    /\ callArgs \in [token : ClientTokens, opts : OptionLists]
    /\ callResult = NotCalled

\* NewClient, Connect, and one request through the transport.
CallRoundTrip ==
    /\ callArgs # NoCall
    /\ callResult = NotCalled
    /\ LET made == NewClient(callArgs.token, callArgs.opts) IN
        IF made.err # Nil
        THEN callResult' = Returned([err |-> made.err, header |-> EmptyMap])
        ELSE \E order \in Orders(DOMAIN made.client.customHeaders) :
                callResult' = Returned([err |-> Nil,
                                        header |-> RoundTrip(made.client, order)])
    /\ UNCHANGED <<regVars, apiCalls, libVars, httpVars, callArgs>>

NextClient == CallRoundTrip

SpecClient == InitClient /\ [][NextClient]_vars

RequestSent == callArgs # NoCall /\ callResult.called

\* C29: every HTTP request of the client carries Authorization: Bearer
\* <AuthToken>, whatever custom headers were configured with WithHeader; and
\* no client is created with an empty AuthToken.
C29_BearerAlwaysSent ==
    RequestSent =>
        /\ callArgs.token = "" => callResult.value.err # Nil
        /\ callResult.value.err = Nil =>
                callResult.value.header["Authorization"] = "Bearer " \o callArgs.token


====
